---------------------------- MODULE Spec2Model ----------------------------
(***************************************************************************)
(* API Switchboard: the bulk transport engine (startTransport), the        *)
(* enrichment engine (startEnrichment) and the spreadsheet receiver's      *)
(* merge-by-key write (mergeData).                                         *)
(*                                                                         *)
(* JavaScript runs a handler to its next `await` without interruption, so  *)
(* every action below is one such run: from the point where a promise      *)
(* settles (or a button is clicked) to the next await.  The user's         *)
(* handlers (handleCancel, handlePause) can only run while the job is      *)
(* suspended at an await.                                                  *)
(***************************************************************************)
EXTENDS Integers, Sequences, FiniteSets, TLC

(***************************************************************************)
(* Bounds of the model.                                                    *)
(***************************************************************************)
MaxItems == 4
MaxFaults == 2
MaxPauses == 1
MaxLiveFaults == 1

\* JavaScript's null for the cursor variables: the empty option.
None == <<>>
Some(v) == <<v>>
IsSome(o) == o # <<>>
Val(o) == o[1]

Min(a, b) == IF a < b THEN a ELSE b
Max(a, b) == IF a > b THEN a ELSE b

RECURSIVE Pow2(_)
Pow2(n) == IF n <= 0 THEN 1 ELSE 2 * Pow2(n - 1)

(***************************************************************************)
(* State.                                                                  *)
(*   cfg           what the run was started with: the store's pagination   *)
(*                 and rateLimit records, bulkTransport.mode/maxPages, the  *)
(*                 modal's target, whether window.switchboard exists, and   *)
(*                 the simulated source (itemCount items, cursorStyle).     *)
(*   bulkTransport the store's bulkTransport record                        *)
(*   cancelRef, pauseRef   the modal's refs                                *)
(*   pc            where startTransport is suspended                       *)
(*   loc           startTransport's local variables                        *)
(*   trace         what the outside world saw: requests to the source,     *)
(*                 sleeps, batches handed to the sink, the cancel click     *)
(*   faults, pauses  what is left of the fault and pause budgets           *)
(***************************************************************************)
VARIABLES
  cfg, bulkTransport, cancelRef, pauseRef, pc, loc, trace, faults, pauses

tvars == <<cfg, bulkTransport, cancelRef, pauseRef, pc, loc, trace, faults, pauses>>

(***************************************************************************)
(* State of the "Enrich by ID" workflow of the same modal.                 *)
(*   ecfg          the form the run is started with (batch size, Max IDs,  *)
(*                 whether window.switchboard exists, whether the cURL      *)
(*                 template parses) and the key column of the sheet         *)
(*   enrichment    the store's enrichment record                           *)
(*   enrichCancelRef, enrichPauseRef   the modal's refs                    *)
(*   epc, eloc     where startEnrichment is suspended, and its locals       *)
(*   etrace        what the outside world saw of the enrichment runs       *)
(*   efaults, epauses, eruns   what is left of the fault, pause and run    *)
(*                 budgets                                                  *)
(***************************************************************************)
VARIABLES
  ecfg, enrichment, enrichCancelRef, enrichPauseRef, epc, eloc, etrace,
  efaults, epauses, eruns

evars == <<ecfg, enrichment, enrichCancelRef, enrichPauseRef, epc, eloc, etrace,
           efaults, epauses, eruns>>

(***************************************************************************)
(* State of the spreadsheet receiver (the Apps Script web app).            *)
(*   sheet      the sheet a merge writes to: its header row and data rows  *)
(*   lastPost   the last merge envelope received and the sheet it found    *)
(*   lastReply  what receiveData answered to it                            *)
(***************************************************************************)
VARIABLES sheet, lastPost, lastReply

mvars == <<sheet, lastPost, lastReply>>

(***************************************************************************)
(* State of the cURL panel (CurlInput) and its single fetch.               *)
(*   parsedRequest  the names of the parsed request's query parameters, in *)
(*                  the order of the URL; None before the first parse       *)
(*   pagination     the store's pagination record                          *)
(*   exec           executeFetch: where it is suspended, the pagination     *)
(*                  record and the direction it was called with, the        *)
(*                  retries made                                            *)
(*   apiResponse    the body of the last response shown, None before        *)
(*   lastOp         the last handler of the panel that ran to its end       *)
(***************************************************************************)
VARIABLES parsedRequest, pagination, exec, apiResponse, lastOp

pvars == <<parsedRequest, pagination, exec, apiResponse, lastOp>>

(***************************************************************************)
(* The modal (BulkTransportModal) as a component: it is mounted while      *)
(* showBulkTransport holds, and every mount has its own refs.              *)
(*   modal      "open", "closing" (handleClose's timer is pending) or      *)
(*              "closed"                                                    *)
(*   opc, oloc  a startTransport loop of an earlier mount that has not     *)
(*              ended: where it is suspended, and its locals; its           *)
(*              cancelRef holds true and its pauseRef is opause             *)
(***************************************************************************)
VARIABLES modal, opc, oloc, opause

ovars == <<modal, opc, oloc, opause>>

vars == <<tvars, evars, mvars, pvars, ovars>>

(***************************************************************************)
(* The names by which handleParse recognizes a pagination parameter.       *)
(***************************************************************************)
PAGE_PARAM_NAMES == {"page", "p", "pageNumber", "page_number", "pageNo", "pg"}
OFFSET_PARAM_NAMES == {"offset", "skip", "start"}
CURSOR_PARAM_NAMES ==
  {"cursor", "after", "since_id", "next_cursor", "starting_after", "next_token",
   "continuation"}
PER_PAGE_PARAM_NAMES ==
  {"per_page", "perPage", "page_size", "pageSize", "limit", "count", "size", "rows",
   "maxResults", "max_results"}

(***************************************************************************)
(* Response bodies.  A body is an object, a bare array or text.  `arrKey`  *)
(* is the key under which an object body carries its item array ("root"    *)
(* when the body is the array itself, "none" when it carries no array);    *)
(* `fields` gives, for each path the cursor detection knows, the value     *)
(* found there.  Items are numbered 1..itemCount; an item's `id` is its    *)
(* number.  URLs and cursor tokens are named by the page they lead to.     *)
(***************************************************************************)
Absent == [t |-> "absent", v |-> 0]
Str(v) == [t |-> "str", v |-> v]

CURSOR_RESPONSE_PATHS ==
  << [path |-> "paging.next", urlField |-> TRUE],
     [path |-> "next", urlField |-> TRUE],
     [path |-> "next_page", urlField |-> TRUE],
     [path |-> "links.next", urlField |-> TRUE],
     [path |-> "_links.next.href", urlField |-> TRUE],
     [path |-> "meta.next_cursor", urlField |-> FALSE],
     [path |-> "cursor.next", urlField |-> FALSE],
     [path |-> "next_cursor", urlField |-> FALSE],
     [path |-> "has_more", urlField |-> FALSE],
     [path |-> "nextPageToken", urlField |-> FALSE],
     [path |-> "pagination.next_url", urlField |-> TRUE],
     [path |-> "pagination.next_cursor", urlField |-> FALSE] >>

PathNames == {CURSOR_RESPONSE_PATHS[i].path : i \in DOMAIN CURSOR_RESPONSE_PATHS}

NoFields == [p \in PathNames |-> Absent]

\* JavaScript truthiness of a value found at a path.
Truthy(val) == val.t \in {"str", "true", "obj"}

NoCursor == [found |-> FALSE, value |-> 0, isUrl |-> FALSE, path |-> ""]

\* data.data?.[data.data.length - 1]?.id, and `if (lastId)`: None is a value
\* that is not truthy; an item written 0 has no id, or a falsy one.
LastId(data) ==
  IF data.arrKey = "data" /\ Len(data.items) > 0 /\ data.items[Len(data.items)] # 0
    THEN Some(data.items[Len(data.items)])
    ELSE None

\* DetectFrom giving up at the first pattern whose path holds a truthy value
\* that is no cursor.
RECURSIVE DetectFrom_FirstTruthyEnds(_, _)
DetectFrom_FirstTruthyEnds(data, i) ==
  IF i > Len(CURSOR_RESPONSE_PATHS) THEN NoCursor
  ELSE LET pattern == CURSOR_RESPONSE_PATHS[i]
           value == data.fields[pattern.path]
       IN IF Truthy(value)
            THEN IF pattern.path = "has_more"
                   THEN IF value.t = "true" /\ IsSome(LastId(data))
                          THEN [found |-> TRUE, value |-> Val(LastId(data)), isUrl |-> FALSE,
                                path |-> pattern.path]
                          ELSE NoCursor
                   ELSE IF value.t = "str"
                          THEN [found |-> TRUE, value |-> value.v, isUrl |-> pattern.urlField,
                                path |-> pattern.path]
                          ELSE NoCursor
            ELSE DetectFrom_FirstTruthyEnds(data, i + 1)

\* Lines 24-45 (and part_005 lines 229-263): the loop over the patterns,
\* from pattern i on.
RECURSIVE DetectFrom(_, _)
DetectFrom(data, i) ==
  IF i > Len(CURSOR_RESPONSE_PATHS) THEN NoCursor
  ELSE LET pattern == CURSOR_RESPONSE_PATHS[i]
           value == data.fields[pattern.path]
       IN IF Truthy(value)
            THEN IF pattern.path = "has_more"
                   THEN IF value.t = "true" /\ IsSome(LastId(data))
                          THEN [found |-> TRUE, value |-> Val(LastId(data)), isUrl |-> FALSE,
                                path |-> pattern.path]
                          ELSE DetectFrom(data, i + 1)
                   ELSE IF value.t = "str"
                          THEN [found |-> TRUE, value |-> value.v, isUrl |-> pattern.urlField,
                                path |-> pattern.path]
                          ELSE DetectFrom(data, i + 1)
            ELSE DetectFrom(data, i + 1)

detectCursorFromResponse(data) ==
  IF data.kind # "object" THEN NoCursor ELSE DetectFrom(data, 1)

arrayKeys ==
  {"candidates", "data", "results", "items", "records", "entries", "users",
   "list", "rows", "members", "jobs"}

\* null is modelled by None, an array by Some(array).
extractDataArray(data) ==
  IF data.kind = "array" THEN Some(data.items)
  ELSE IF data.kind = "object" /\ data.arrKey \in arrayKeys THEN Some(data.items)
  ELSE None

(***************************************************************************)
(* The simulated source: itemCount items served in pages of perPage.  A    *)
(* page-number request names its page; the first cursor request and a      *)
(* request without pagination are answered with page 1; a next-URL or a    *)
(* token leads to the page it names.                                       *)
(***************************************************************************)
PageCount(c, p) == Max(0, Min(c.perPage, c.itemCount - (p - 1) * c.perPage))

PageItems(c, p) == [i \in 1..PageCount(c, p) |-> (p - 1) * c.perPage + i]

ServedPage(req) == IF req.kind \in {"first", "plain"} THEN 1 ELSE req.val

NextSignal(c, p) ==
  IF c.mode = "cursor" /\ p * c.perPage < c.itemCount
    THEN IF c.cursorStyle = "url"
           THEN [NoFields EXCEPT !["paging.next"] = Str(p + 1)]
           ELSE [NoFields EXCEPT !["meta.next_cursor"] = Str(p + 1)]
    ELSE NoFields

\* What an offset-paginated API serves for offset v: the items after the
\* first v, at most perPage of them.
OffsetItems(c, v) == [i \in 1..Max(0, Min(c.perPage, c.itemCount - v)) |-> v + i]

PageBody(c, req) ==
  IF req.kind = "offset"
    THEN [kind |-> "object", arrKey |-> "data", items |-> OffsetItems(c, req.val),
          fields |-> NoFields]
    ELSE [kind |-> "object", arrKey |-> "data", items |-> PageItems(c, ServedPage(req)),
          fields |-> NextSignal(c, ServedPage(req))]

\* What an API sends with an error status: an object without an item array.
ErrorBody == [kind |-> "object", arrKey |-> "none", items |-> <<>>, fields |-> NoFields]

(***************************************************************************)
(* Error messages are word sequences, so that String.includes can be       *)
(* computed (it is case-sensitive: "Error" is not "error").                *)
(***************************************************************************)
Includes(msg, sub) ==
  \E k \in 0..(Len(msg) - Len(sub)) : SubSeq(msg, k + 1, k + Len(sub)) = sub

NoMessage == <<>>
UnknownFetchError == <<"Unknown", "fetch", "error">>
SendFailed == <<"Send", "failed">>

\* error.message of a rejected fetch() in the renderer, or of a failed axios
\* call in the main process (axios's own wording is "Network Error").
FetchErrorMessages(c) ==
  IF c.switchboard
    THEN {<<"connect", "ECONNREFUSED">>, <<"Network", "Error">>}
    ELSE {<<"Failed", "to", "fetch">>, <<"Network", "error">>}

(***************************************************************************)
(* Dates.  The value an item holds in the date field is missing, the       *)
(* number 0, or a string: empty, unparseable ("junk") or the name of a day *)
(* ("d1" < "d2" < "d3").  `new Date(v)` turns a day name into its instant, *)
(* the number 0 into the epoch (instant 0), anything else into an invalid  *)
(* date.  The bounds of the window come from <input type="date">: a day    *)
(* name or the empty string.                                               *)
(***************************************************************************)
NoDate == [t |-> "absent", v |-> ""]
ZeroDate == [t |-> "zero", v |-> "0"]
DateStr(v) == [t |-> "str", v |-> v]

\* new Date(v).getTime(); None is NaN.
ParseDate(val) ==
  IF val.t = "zero" THEN Some(0)
  ELSE IF val.t = "str" /\ val.v = "d1" THEN Some(1)
  ELSE IF val.t = "str" /\ val.v = "d2" THEN Some(2)
  ELSE IF val.t = "str" /\ val.v = "d3" THEN Some(3)
  ELSE None

\* !fieldVal
IsFalsyDate(val) == val.t \in {"absent", "zero"} \/ (val.t = "str" /\ val.v = "")

\* item[btState.dateField] of item number i: the items carry the values of
\* c.dates in turn.
ItemDate(c, i) == c.dates[((i - 1) % Len(c.dates)) + 1]

\* Line 891: whether the pages are filtered at all.
DateFiltering(c) ==
  c.btMode = "dateRange" /\ c.dateField # "" /\ (c.dateFrom # "" \/ c.dateTo # "")

\* Lines 892-893: null is None.
BoundOf(str) == IF str # "" THEN ParseDate(DateStr(str)) ELSE None

\* KeepsItem with the upper bound of the window left out.
KeepsItem_NoUpperBound(c, i) ==
  LET fieldVal == ItemDate(c, i)
      itemDate == ParseDate(fieldVal)
      fromDate == BoundOf(c.dateFrom)
  IN IF IsFalsyDate(fieldVal) THEN FALSE
     ELSE IF ~IsSome(itemDate) THEN FALSE
     ELSE IF IsSome(fromDate) /\ Val(itemDate) < Val(fromDate) THEN FALSE
     ELSE TRUE

\* Lines 896-904: the filter's predicate.
KeepsItem(c, i) ==
  LET fieldVal == ItemDate(c, i)
      itemDate == ParseDate(fieldVal)
      fromDate == BoundOf(c.dateFrom)
      toDate == BoundOf(c.dateTo)
  IN IF IsFalsyDate(fieldVal) THEN FALSE
     ELSE IF ~IsSome(itemDate) THEN FALSE
     ELSE IF IsSome(fromDate) /\ Val(itemDate) < Val(fromDate) THEN FALSE
     ELSE IF IsSome(toDate) /\ Val(itemDate) > Val(toDate) THEN FALSE
     ELSE TRUE

\* Lines 910-913: some item of the page lies before the window.
AnyBefore(c, items) ==
  \E k \in DOMAIN items :
    LET d == ParseDate(ItemDate(c, items[k]))
    IN IsSome(d) /\ IsSome(BoundOf(c.dateFrom)) /\ Val(d) < Val(BoundOf(c.dateFrom))

(***************************************************************************)
(* startTransport, cut at its awaits.  The pieces below are the runs of    *)
(* code between two awaits; each takes and returns the "world" w =         *)
(* [bt, loc, pc, trace] the run reads and writes, with the two refs of the *)
(* modal instance whose handler it is.                                     *)
(***************************************************************************)
World ==
  [bt |-> bulkTransport, loc |-> loc, pc |-> pc, trace |-> trace,
   cancel |-> cancelRef, pause |-> pauseRef]

\* An observed event: a "request" to the source (kind and val name the request),
\* the "response" to it (kind is the outcome, val the status, ra the Retry-After
\* header), a "sleep" of val ms, a batch handed to the sink ("send") and the
\* sink's "reply" (kind is its verdict), and the "cancel" click (kind is where
\* the job was suspended).
EventRa(e, page, kind, val, items, ra) ==
  [e |-> e, page |-> page, kind |-> kind, val |-> val, items |-> items, ra |-> ra]

Event(e, page, kind, val, items) ==
  EventRa(e, page, kind, val, items, [t |-> "absent", v |-> 0])

\* addLog that keeps the newest entry only.
addLog_NewestOnly(w, page, items, status) ==
  [w EXCEPT !.bt.log = <<[page |-> page, items |-> items, status |-> status]>>]

\* addLog; the timestamp is left out, page '-' is written 0.
addLog(w, page, items, status) ==
  [w EXCEPT !.bt.log = Append(@, [page |-> page, items |-> items, status |-> status])]

\* Finish with completedAt left unset for a cancelled job.
Finish_CancelledNotCompleted(w) ==
  LET status == IF w.cancel THEN "DONE: Cancelled"
                ELSE IF Len(w.loc.errors) > 0 THEN "DONE: Completed with errors"
                ELSE "DONE: Completed"
      w1 == addLog(w, 0, w.loc.totalItems, status)
  IN [w1 EXCEPT !.bt.isRunning = FALSE,
                !.bt.completedAt = IF w.cancel THEN "null" ELSE "set",
                !.pc = "done"]

\* Lines 981-989: the code after the page loop.
Finish(w) ==
  LET status == IF w.cancel THEN "DONE: Cancelled"
                ELSE IF Len(w.loc.errors) > 0 THEN "DONE: Completed with errors"
                ELSE "DONE: Completed"
      w1 == addLog(w, 0, w.loc.totalItems, status)
  IN [w1 EXCEPT !.bt.isRunning = FALSE, !.bt.completedAt = "set", !.pc = "done"]

\* RetryTop without the cancel check at the head of the retry loop.
RetryTop_NoCancelCheck(w) ==
  [w EXCEPT !.pc = "fetching",
            !.trace = Append(@, Event("request", w.loc.pageNum,
                                       w.loc.requestConfig.kind,
                                       w.loc.requestConfig.val, <<>>))]

\* Lines 835-843: the head of the retry loop: leave on cancel, else call the
\* source.  A cancelled retry loop is followed by `if (cancelRef.current) break`.
RetryTop(w) ==
  IF w.cancel THEN Finish(w)
  ELSE [w EXCEPT !.pc = "fetching",
                 !.trace = Append(@, Event("request", w.loc.pageNum,
                                            w.loc.requestConfig.kind,
                                            w.loc.requestConfig.val, <<>>))]

\* Lines 770-813: the request for this page; None when the cursor branch
\* finds no way to go on (`reachedEnd = true; break`).
BuildRequest(c, l, pageNum) ==
  IF c.mode = "cursor"
    THEN IF l.isFirstPage THEN Some([kind |-> "first", val |-> 0])
         ELSE IF IsSome(l.nextPageUrl) THEN Some([kind |-> "url", val |-> Val(l.nextPageUrl)])
         ELSE IF IsSome(l.nextCursor) /\ IsSome(c.cursorParamName)
                THEN Some([kind |-> "token", val |-> Val(l.nextCursor)])
         ELSE None
    ELSE IF c.mode = "page"
      THEN Some([kind |-> IF c.pageParamName \in OFFSET_PARAM_NAMES THEN "offset"
                          ELSE "page",
                 val |-> pageNum])
    ELSE Some([kind |-> "plain", val |-> 0])

\* Lines 767-833: after the pause check: count the page, build its request,
\* wait out the rate-limit delay, enter the retry loop.
NextPage(w) ==
  LET pageNum == w.loc.pageNum + 1
      req == BuildRequest(cfg, w.loc, pageNum)
      w1 == [w EXCEPT !.loc.pageNum = pageNum, !.bt.currentPage = pageNum]
  IN IF ~IsSome(req)
       THEN Finish([w1 EXCEPT !.loc.reachedEnd = TRUE])
       ELSE LET w2 == [w1 EXCEPT !.loc.requestConfig = Val(req),
                                 !.loc.reachedEnd = IF cfg.mode \in {"cursor", "page"}
                                                      THEN @ ELSE TRUE,
                                 !.loc.isFirstPage = FALSE,
                                 !.loc.retries = 0]
            IN IF pageNum > 1 /\ cfg.delayMs > 0
                 THEN [w2 EXCEPT !.pc = "delaySleep",
                                 !.trace = Append(@, Event("sleep", pageNum, "delay",
                                                            cfg.delayMs, <<>>))]
                 ELSE RetryTop(w2)

\* Lines 762-765: the cancel check that follows the pause loop.
AfterPause(w) ==
  IF w.cancel THEN Finish(addLog(w, w.loc.pageNum + 1, 0, "cancelled"))
  ELSE NextPage(w)

\* maxPagesOf with the page limit of the "pages" mode left out.
maxPagesOf_Unlimited(c) == 9999

\* Line 751.
maxPagesOf(c) == IF c.btMode = "pages" THEN c.maxPages ELSE 9999

\* Lines 751-760: the loop condition, the cancel check, the pause loop.
LoopTop(w) ==
  IF w.loc.reachedEnd \/ ~(w.loc.pageNum < maxPagesOf(cfg)) THEN Finish(w)
  ELSE IF w.cancel THEN Finish(addLog(w, w.loc.pageNum + 1, 0, "cancelled"))
  ELSE IF w.pause /\ ~w.cancel THEN [w EXCEPT !.pc = "pauseSleep"]
  ELSE AfterPause(w)

(***************************************************************************)
(* What a call to the source can come back with.                           *)
(*   ok     HTTP 200 with the page                                         *)
(*   http   an HTTP error status other than 429 (written 500)             *)
(*   r429   HTTP 429, with or without a Retry-After header                 *)
(*   net    no HTTP response: browserFetch's catch, execute-request's catch *)
(*   throw  the call itself rejects (the IPC invoke fails)                 *)
(* browserFetch and execute-request both answer success: true for every    *)
(* HTTP response, whatever its status.                                     *)
(***************************************************************************)
NoHeader == [t |-> "absent", v |-> 0]

RetryAfterHeaders ==
  {NoHeader, [t |-> "secs", v |-> 2], [t |-> "secs", v |-> 60], [t |-> "nan", v |-> 0]}

FetchOutcomes(c) ==
  {[k |-> "ok", ra |-> NoHeader, msg |-> NoMessage],
   [k |-> "http", ra |-> NoHeader, msg |-> NoMessage]}
  \cup {[k |-> "r429", ra |-> h, msg |-> NoMessage] : h \in RetryAfterHeaders}
  \cup {[k |-> "net", ra |-> NoHeader, msg |-> m] : m \in FetchErrorMessages(c)}
  \cup (IF c.switchboard
          THEN {[k |-> "throw", ra |-> NoHeader, msg |-> <<"An", "object", "could", "not", "be", "cloned">>]}
          ELSE {})

\* browserFetch (lines 67-102) and main.js execute-request (lines 52-81).
StatusOf(o) ==
  IF o.k = "ok" THEN 200 ELSE IF o.k = "r429" THEN 429
  ELSE IF o.k = "h404" THEN 404 ELSE IF o.k = "net" THEN 0 ELSE 500

fetchResult(o, body) ==
  IF o.k = "net"
    THEN [success |-> FALSE, status |-> 0, error |-> o.msg, retryAfter |-> NoHeader,
          data |-> ErrorBody]
    ELSE [success |-> TRUE, status |-> StatusOf(o),
          error |-> NoMessage, retryAfter |-> o.ra,
          data |-> IF o.k = "ok" THEN body ELSE ErrorBody]

browserFetch(c, req, o) == fetchResult(o, PageBody(c, req))

\* `let result = null`.
NoResult ==
  [success |-> FALSE, status |-> 0, error |-> NoMessage, retryAfter |-> NoHeader,
   data |-> ErrorBody]

\* waitMsOf with the Retry-After seconds not turned into milliseconds.
waitMsOf_Seconds(retryAfter, retries) ==
  IF retryAfter.t = "secs" THEN retryAfter.v
  ELSE IF retryAfter.t = "nan" THEN 2000 * retries
  ELSE Min(2000 * Pow2(retries - 1), 30000)

\* Lines 847-849.
waitMsOf(retryAfter, retries) ==
  IF retryAfter.t = "secs" THEN retryAfter.v * 1000
  ELSE IF retryAfter.t = "nan" THEN 2000 * retries
  ELSE Min(2000 * Pow2(retries - 1), 30000)

maxRetriesOf(c) == IF c.retryOn429 THEN c.maxRetries ELSE 0

\* Line 874: which fetch errors end the job.
IsNetworkError(errMsg) ==
  Includes(errMsg, <<"Network", "error">>) \/ Includes(errMsg, <<"BROWSER_FETCH_ERROR">>)

\* DetectNext ending a page-number run on a page of exactly perPage items.
DetectNext_StopsOnFullPage(w, result, dataArray) ==
  IF cfg.mode = "cursor"
    THEN LET cursorInfo == detectCursorFromResponse(result.data)
         IN IF cursorInfo.found
              THEN IF cursorInfo.isUrl
                     THEN [w EXCEPT !.loc.nextPageUrl = Some(cursorInfo.value),
                                    !.loc.nextCursor = None]
                     ELSE [w EXCEPT !.loc.nextCursor = Some(cursorInfo.value),
                                    !.loc.nextPageUrl = None]
              ELSE [w EXCEPT !.loc.reachedEnd = TRUE]
  ELSE IF cfg.mode = "page"
    THEN IF Len(dataArray) <= cfg.perPage THEN [w EXCEPT !.loc.reachedEnd = TRUE] ELSE w
  ELSE [w EXCEPT !.loc.reachedEnd = TRUE]

\* Lines 955-975: the next-page signal of a processed page.
DetectNext(w, result, dataArray) ==
  IF cfg.mode = "cursor"
    THEN LET cursorInfo == detectCursorFromResponse(result.data)
         IN IF cursorInfo.found
              THEN IF cursorInfo.isUrl
                     THEN [w EXCEPT !.loc.nextPageUrl = Some(cursorInfo.value),
                                    !.loc.nextCursor = None]
                     ELSE [w EXCEPT !.loc.nextCursor = Some(cursorInfo.value),
                                    !.loc.nextPageUrl = None]
              ELSE [w EXCEPT !.loc.reachedEnd = TRUE]
  ELSE IF cfg.mode = "page"
    THEN IF Len(dataArray) < cfg.perPage THEN [w EXCEPT !.loc.reachedEnd = TRUE] ELSE w
  ELSE [w EXCEPT !.loc.reachedEnd = TRUE]

\* Lines 868-930: what follows the retry loop, up to the call of the sink.
AfterFetch(w, result) ==
  IF w.cancel THEN Finish(w)
  ELSE IF ~result.success
    THEN LET errMsg == IF result.error # NoMessage THEN result.error ELSE UnknownFetchError
             errors == Append(w.loc.errors, [page |-> w.loc.pageNum, error |-> errMsg])
             w1 == addLog([w EXCEPT !.loc.errors = errors], w.loc.pageNum, 0, "fetch error")
             w2 == [w1 EXCEPT !.bt.errors = errors]
         IN LoopTop(IF IsNetworkError(errMsg) THEN [w2 EXCEPT !.loc.reachedEnd = TRUE] ELSE w2)
  ELSE LET found == extractDataArray(result.data)
       IN IF ~IsSome(found) \/ Len(Val(found)) = 0
            THEN Finish([addLog(w, w.loc.pageNum, 0, "empty page - stopping")
                           EXCEPT !.loc.reachedEnd = TRUE])
            ELSE LET dataArray == IF DateFiltering(cfg)
                                    THEN SelectSeq(Val(found), LAMBDA i : KeepsItem(cfg, i))
                                    ELSE Val(found)
                 IN IF DateFiltering(cfg) /\ Len(dataArray) = 0 /\ cfg.dateFrom # ""
                       /\ AnyBefore(cfg, Val(found))
                      THEN Finish([addLog(w, w.loc.pageNum, 0,
                                          "all items outside date range - stopping")
                                     EXCEPT !.loc.reachedEnd = TRUE])
                    ELSE IF Len(dataArray) = 0
                      THEN LoopTop(DetectNext(
                             addLog(w, w.loc.pageNum, 0, "0 items matched date range - skipping"),
                             result, dataArray))
                    ELSE [w EXCEPT !.loc.result = result,
                                   !.loc.dataArray = dataArray,
                                   !.pc = "sending",
                                   !.trace = Append(@, Event("send", w.loc.pageNum, cfg.target,
                                                              0, dataArray))]

\* Lines 835-866: the retry loop's body once the call has come back.
FetchReturn(w0, o) ==
  LET retries == w0.loc.retries + 1
      status == IF o.k = "ok" THEN 200 ELSE IF o.k = "r429" THEN 429
                ELSE IF o.k = "http" THEN 500 ELSE 0
      w == [w0 EXCEPT !.trace = Append(@, EventRa("response", w0.loc.pageNum, o.k,
                                                   status, <<>>, o.ra))]
  IN IF o.k = "throw"
       THEN IF w.loc.retries < maxRetriesOf(cfg)
              THEN [w EXCEPT !.loc.retries = retries, !.pc = "errorSleep",
                             !.trace = Append(@, Event("sleep", w.loc.pageNum, "error",
                                                        2000 * retries, <<>>))]
              ELSE AfterFetch(w, [success |-> FALSE, status |-> 0, error |-> o.msg,
                                  retryAfter |-> NoHeader, data |-> ErrorBody])
       ELSE LET result == browserFetch(cfg, w.loc.requestConfig, o)
            IN IF result.status = 429 /\ w.loc.retries < maxRetriesOf(cfg)
                 THEN LET waitMs == waitMsOf(result.retryAfter, retries)
                          w1 == addLog([w EXCEPT !.loc.retries = retries],
                                       w.loc.pageNum, 0, "rate-limited")
                      IN [w1 EXCEPT !.pc = "backoffSleep",
                                    !.trace = Append(@, Event("sleep", w.loc.pageNum,
                                                               "backoff", waitMs, <<>>))]
                 ELSE AfterFetch(w, result)

(***************************************************************************)
(* What a call to the sink can come back with: the HTTP status was 2xx or  *)
(* not (ok), the reply's JSON says success true, false or nothing, or the  *)
(* call failed without a reply (fail).  The spreadsheet receiver answers   *)
(* every POST with HTTP 200 and {success: true|false}; the webhook has no  *)
(* reply body the sender reads.                                            *)
(***************************************************************************)
SinkReplies(c) ==
  IF c.target = "gsheet"
    THEN {[ok |-> TRUE, success |-> "true", fail |-> FALSE],
          [ok |-> TRUE, success |-> "false", fail |-> FALSE],
          [ok |-> FALSE, success |-> "none", fail |-> FALSE],
          [ok |-> FALSE, success |-> "none", fail |-> TRUE]}
    ELSE {[ok |-> TRUE, success |-> "none", fail |-> FALSE],
          [ok |-> FALSE, success |-> "none", fail |-> FALSE],
          [ok |-> FALSE, success |-> "none", fail |-> TRUE]}

\* What the sink did with the batch.
SinkVerdict(r) ==
  IF r.fail THEN "failed"
  ELSE IF r.ok /\ r.success # "false" THEN "accepted"
  ELSE "rejected"

\* sendToGoogleSheet (lines 109-147).
sendToGoogleSheet(r) ==
  IF r.fail THEN FALSE ELSE (r.ok \/ r.success = "true")

\* sendToN8n (lines 152-180) and main.js send-to-n8n (lines 86-103).
sendToN8n(r) ==
  IF r.fail THEN FALSE ELSE r.ok

sendResultOf(c, r) == IF c.target = "gsheet" THEN sendToGoogleSheet(r) ELSE sendToN8n(r)

\* Lines 937-979: the sink's answer, the counters, the next-page signal.
SendReturn(w, r) ==
  LET dataArray == w.loc.dataArray
      w0 == [w EXCEPT !.trace = Append(@, Event("reply", w.loc.pageNum, SinkVerdict(r),
                                                 0, dataArray))]
      w1 == IF sendResultOf(cfg, r)
              THEN LET totalItems == w.loc.totalItems + Len(dataArray)
                       totalPages == w.loc.totalPages + 1
                       w2 == addLog([w0 EXCEPT !.loc.totalItems = totalItems,
                                               !.loc.totalPages = totalPages],
                                    w.loc.pageNum, Len(dataArray), "sent")
                   IN [w2 EXCEPT !.bt.totalPagesSent = totalPages,
                                 !.bt.totalItemsSent = totalItems]
              ELSE LET errors == Append(w.loc.errors,
                                        [page |-> w.loc.pageNum, error |-> SendFailed])
                       w2 == addLog([w0 EXCEPT !.loc.errors = errors],
                                    w.loc.pageNum, Len(dataArray), "send error")
                   IN [w2 EXCEPT !.bt.errors = errors]
  IN LoopTop(DetectNext(w1, w.loc.result, dataArray))

(***************************************************************************)
(* Enrich by ID.  The key column of the sheet is a sequence of cells: a    *)
(* key (a positive number, all different) or Blank.                        *)
(***************************************************************************)
Blank == 0
IdPageLimit == 500
ServerPageLimit == 1000
EnrichMaxRetries == 3
DefaultBatchSize == 50
DefaultEnrichDelayMs == 1000

CeilDiv(a, b) == (a + b - 1) \div b

\* handleGetIds (receiver, lines 80-160) on a sheet that has the column.
\* handleGetIds naming as nextStart the row after the last key it returned.
handleGetIds_NextStartByKeys(column, startIndex, limitParam) ==
  LET limit == Min(limitParam, ServerPageLimit)
      totalRows == Len(column)
      readCount == Min(limit, totalRows - startIndex)
      ids == SelectSeq(SubSeq(column, startIndex + 1, startIndex + readCount),
                       LAMBDA cell : cell # Blank)
  IN IF readCount <= 0
       THEN [ids |-> <<>>, hasMore |-> FALSE, nextStart |-> None]
       ELSE [ids |-> ids,
             hasMore |-> (startIndex + readCount) < totalRows,
             nextStart |-> Some(startIndex + Max(1, Len(ids)))]

handleGetIds(column, startIndex, limitParam) ==
  LET limit == Min(limitParam, ServerPageLimit)
      totalRows == Len(column)
      readCount == Min(limit, totalRows - startIndex)
  IN IF readCount <= 0
       THEN [ids |-> <<>>, hasMore |-> FALSE, nextStart |-> None]
       ELSE [ids |-> SelectSeq(SubSeq(column, startIndex + 1, startIndex + readCount),
                               LAMBDA cell : cell # Blank),
             hasMore |-> (startIndex + readCount) < totalRows,
             nextStart |-> Some(startIndex + readCount)]

\* Line 219: the limit parameter of a getIds request.
limitOf(maxIds, collected) ==
  IF IsSome(maxIds) THEN Min(IdPageLimit, Val(maxIds) - collected) ELSE IdPageLimit

\* The body the per-key endpoint answers with: an object without an array.
KeyBody == [kind |-> "object", arrKey |-> "none", items |-> <<>>, fields |-> NoFields]

\* Lines 600-623: the row built from a successful response.
flatDataOf(id, result) ==
  LET dataArray == extractDataArray(result.data)
  IN [id |-> id, status |-> result.status,
      count |-> IF IsSome(dataArray) THEN Len(Val(dataArray)) ELSE 0]

\* sendMergeToSheet (lines 258-294).
sendMergeToSheet(r) ==
  IF r.fail THEN FALSE ELSE (r.ok \/ r.success = "true")

MergeReplies ==
  {[ok |-> TRUE, success |-> "true", fail |-> FALSE],
   [ok |-> TRUE, success |-> "false", fail |-> FALSE],
   [ok |-> FALSE, success |-> "none", fail |-> FALSE],
   [ok |-> FALSE, success |-> "none", fail |-> TRUE]}

\* What a per-key call can come back with (see FetchOutcomes).
EnrichFetchOutcomes(c) ==
  {[k |-> "ok", ra |-> NoHeader, msg |-> NoMessage],
   [k |-> "h404", ra |-> NoHeader, msg |-> NoMessage],
   [k |-> "http", ra |-> NoHeader, msg |-> NoMessage],
   [k |-> "r429", ra |-> NoHeader, msg |-> NoMessage],
   [k |-> "r429", ra |-> [t |-> "secs", v |-> 2], msg |-> NoMessage],
   [k |-> "net", ra |-> NoHeader, msg |-> <<"Failed", "to", "fetch">>]}
  \cup (IF c.switchboard
          THEN {[k |-> "throw", ra |-> NoHeader, msg |-> <<"An", "object", "could", "not", "be", "cloned">>]}
          ELSE {})

\* The store's enrichment record before any run, and after resetEnrichment.
InitialEnrichment ==
  [isRunning |-> FALSE, isPaused |-> FALSE, isCancelled |-> FALSE,
   startedAt |-> "null", completedAt |-> "null", idList |-> <<>>, totalIds |-> 0,
   totalBatches |-> 0, currentBatch |-> 0, currentId |-> 0, processedIds |-> 0,
   lastProcessedIndex |-> 0, batchSize |-> DefaultBatchSize, errors |-> <<>>,
   log |-> <<>>]

InitialEnrichLocals ==
  [resumeFrom |-> 0, idList |-> <<>>, allIds |-> <<>>, start |-> 0, i |-> 0,
   batch |-> <<>>, batchNum |-> 0, processedCount |-> 0, errors |-> <<>>,
   retries |-> 0, result |-> NoResult]

\* The world a run of startEnrichment's code reads and writes; the two refs are
\* part of it because the run that starts the job resets them.
EnrichWorld ==
  [en |-> enrichment, loc |-> eloc, pc |-> epc, trace |-> etrace,
   cancel |-> enrichCancelRef, pause |-> enrichPauseRef]

\* An observed event of an enrichment run: "start" (val is resumeFrom), a
\* "getIds" request to the key source (idx is start, val the limit) and its
\* "ids" reply, a per-key "request" (idx is the index, val the key) and its
\* "response" (kind is the outcome, val the status), a "sleep" of val ms, a
\* "merge" delivery of rows (val is the batch number) and its "reply", the
\* "cancel" click (kind is where the job was suspended) and the "end" of the run.
EnrichEvent(e, idx, kind, val, rows) ==
  [e |-> e, idx |-> idx, kind |-> kind, val |-> val, rows |-> rows]

\* addEnrichLog (lines 424-429); id '-' is written 0.
addEnrichLog(w, id, status) ==
  [w EXCEPT !.en.log = Append(@, [id |-> id, status |-> status])]

\* Lines 675-686: the code after the key loop and the final flush.
EnrichFinish(w) ==
  LET status == IF w.cancel THEN "DONE: Cancelled"
                ELSE IF Len(w.loc.errors) > 0 THEN "DONE: Completed with errors"
                ELSE "DONE: Completed"
      w1 == addEnrichLog(w, 0, status)
  IN [w1 EXCEPT !.en.isRunning = FALSE,
                !.en.processedIds = w.loc.processedCount,
                !.en.completedAt = IF w.cancel THEN "null" ELSE "set",
                !.en.lastProcessedIndex = w.loc.processedCount,
                !.pc = "idle",
                !.trace = Append(@, EnrichEvent("end", w.loc.processedCount, status,
                                                w.loc.batchNum, <<>>))]

\* Lines 654-662: the remaining rows are sent, unless the job was cancelled.
FlushFinal(w) ==
  IF Len(w.loc.batch) > 0 /\ ~w.cancel
    THEN LET batchNum == w.loc.batchNum + 1
             w1 == addEnrichLog([w EXCEPT !.loc.batchNum = batchNum,
                                          !.en.currentBatch = batchNum],
                                0, "Sending final batch")
         IN [w1 EXCEPT !.pc = "sendingFinal",
                       !.trace = Append(@, EnrichEvent("merge", w.loc.i, "final",
                                                       batchNum, w.loc.batch))]
    ELSE EnrichFinish(w)

\* Lines 552-560: the head of the retry loop: leave on cancel (line 583 then
\* leaves the key loop), else call the endpoint for this key.
EnrichRetryTop(w) ==
  IF w.cancel THEN FlushFinal(w)
  ELSE [w EXCEPT !.pc = "fetching",
                 !.trace = Append(@, EnrichEvent("request", w.loc.i, "key",
                                                 w.loc.idList[w.loc.i + 1], <<>>))]

\* Lines 530-550: the cancel check after the pause loop, the delay before
\* every key but the first of the run, the start of the retry loop.
NextKey(w) ==
  IF w.cancel
    THEN FlushFinal([addEnrichLog(w, 0, "Cancelled at ID")
                       EXCEPT !.en.lastProcessedIndex = w.loc.i,
                              !.en.processedIds = w.loc.processedCount])
    ELSE LET w1 == [w EXCEPT !.en.currentId = w.loc.idList[w.loc.i + 1],
                             !.en.processedIds = w.loc.processedCount,
                             !.loc.retries = 0,
                             !.loc.result = NoResult]
         IN IF w.loc.i > w.loc.resumeFrom
              THEN [w1 EXCEPT !.pc = "delaySleep",
                              !.trace = Append(@, EnrichEvent("sleep", w.loc.i, "delay",
                                                              ecfg.delayMs, <<>>))]
              ELSE EnrichRetryTop(w1)

\* Lines 518-529: the key loop's condition, the cancel check, the pause loop.
KeyLoopTop(w) ==
  IF ~(w.loc.i < Len(w.loc.idList)) THEN FlushFinal(w)
  ELSE IF w.cancel
    THEN FlushFinal([addEnrichLog(w, 0, "Cancelled at ID")
                       EXCEPT !.en.lastProcessedIndex = w.loc.i,
                              !.en.processedIds = w.loc.processedCount])
  ELSE IF w.pause /\ ~w.cancel THEN [w EXCEPT !.pc = "pauseSleep"]
  ELSE NextKey(w)

\* Lines 583-652: what follows the retry loop, up to the call of the sink.
AfterEnrichFetch(w, result) ==
  LET i == w.loc.i
      id == w.loc.idList[i + 1]
      processedCount == w.loc.processedCount + 1
  IN IF w.cancel THEN FlushFinal(w)
     ELSE IF ~result.success
       THEN LET w1 == IF result.status = 404
                        THEN addEnrichLog(w, id, "404 - no data (skipped)")
                        ELSE LET errors == Append(w.loc.errors,
                                                  [id |-> id, error |-> "fetch"])
                                 w2 == addEnrichLog([w EXCEPT !.loc.errors = errors],
                                                    id, "Error")
                             IN [w2 EXCEPT !.en.errors = errors]
            IN KeyLoopTop([w1 EXCEPT !.loc.processedCount = processedCount,
                                     !.loc.i = i + 1])
     ELSE LET batch == Append(w.loc.batch, flatDataOf(id, result))
              w1 == [w EXCEPT !.loc.batch = batch,
                              !.loc.processedCount = processedCount,
                              !.loc.result = result]
          IN IF Len(batch) >= ecfg.batchSize
               THEN LET batchNum == w.loc.batchNum + 1
                        w2 == addEnrichLog([w1 EXCEPT !.loc.batchNum = batchNum,
                                                      !.en.currentBatch = batchNum,
                                                      !.en.processedIds = processedCount,
                                                      !.en.lastProcessedIndex = i + 1],
                                           0, "Sending batch")
                    IN [w2 EXCEPT !.pc = "sendingBatch",
                                  !.trace = Append(@, EnrichEvent("merge", i, "full",
                                                                  batchNum, batch))]
               ELSE KeyLoopTop([w1 EXCEPT !.loc.i = i + 1])

\* Lines 552-581: the retry loop's body once the call has come back.
EnrichFetchReturn(w0, o) ==
  LET retries == w0.loc.retries + 1
      i == w0.loc.i
      id == w0.loc.idList[i + 1]
      w == [w0 EXCEPT !.trace = Append(@, EnrichEvent("response", i, o.k,
                                                      StatusOf(o), <<>>))]
  IN IF o.k = "throw"
       THEN IF w.loc.retries < EnrichMaxRetries
              THEN [w EXCEPT !.loc.retries = retries, !.pc = "errorSleep",
                             !.trace = Append(@, EnrichEvent("sleep", i, "error",
                                                             2000 * retries, <<>>))]
              ELSE AfterEnrichFetch(w, [success |-> FALSE, status |-> 0, error |-> o.msg,
                                        retryAfter |-> NoHeader, data |-> ErrorBody])
       ELSE LET result == fetchResult(o, KeyBody)
            IN IF result.status = 429 /\ w.loc.retries < EnrichMaxRetries
                 THEN LET waitMs == waitMsOf(result.retryAfter, retries)
                          w1 == addEnrichLog([w EXCEPT !.loc.retries = retries],
                                             id, "Rate limited")
                      IN [w1 EXCEPT !.pc = "backoffSleep",
                                    !.trace = Append(@, EnrichEvent("sleep", i, "backoff",
                                                                    waitMs, <<>>))]
                 ELSE AfterEnrichFetch(w, result)

\* BatchSendReturn with the batch kept after the delivery.
BatchSendReturn_BatchKept(w, r) ==
  LET w0 == [w EXCEPT !.trace = Append(@, EnrichEvent("reply", w.loc.i, SinkVerdict(r),
                                                      w.loc.batchNum, w.loc.batch))]
      w1 == IF sendMergeToSheet(r)
              THEN addEnrichLog(w0, 0, "Batch merged")
              ELSE LET errors == Append(w.loc.errors,
                                        [id |-> w.loc.batchNum, error |-> "batch"])
                       w2 == addEnrichLog([w0 EXCEPT !.loc.errors = errors],
                                          0, "Batch error")
                   IN [w2 EXCEPT !.en.errors = errors]
  IN KeyLoopTop([w1 EXCEPT !.loc.i = w.loc.i + 1])

\* Lines 636-652: the sink's answer to a full batch; the batch is emptied and
\* the key loop goes on.
BatchSendReturn(w, r) ==
  LET w0 == [w EXCEPT !.trace = Append(@, EnrichEvent("reply", w.loc.i, SinkVerdict(r),
                                                      w.loc.batchNum, w.loc.batch))]
      w1 == IF sendMergeToSheet(r)
              THEN addEnrichLog(w0, 0, "Batch merged")
              ELSE LET errors == Append(w.loc.errors,
                                        [id |-> w.loc.batchNum, error |-> "batch"])
                       w2 == addEnrichLog([w0 EXCEPT !.loc.errors = errors],
                                          0, "Batch error")
                   IN [w2 EXCEPT !.en.errors = errors]
  IN KeyLoopTop([w1 EXCEPT !.loc.batch = <<>>, !.loc.i = w.loc.i + 1])

\* Lines 662-673: the sink's answer to the final batch; a failure is pushed
\* to the local errors only.
FinalSendReturn(w, r) ==
  LET w0 == [w EXCEPT !.trace = Append(@, EnrichEvent("reply", w.loc.i, SinkVerdict(r),
                                                      w.loc.batchNum, w.loc.batch))]
      w1 == IF sendMergeToSheet(r)
              THEN addEnrichLog(w0, 0, "Final batch merged")
              ELSE addEnrichLog([w0 EXCEPT !.loc.errors =
                                   Append(@, [id |-> w.loc.batchNum, error |-> "batch"])],
                                0, "Final batch error")
  IN EnrichFinish(w1)

\* Lines 509-518: the locals of the key loop.
BeginKeys(w, idList) ==
  LET resumeFrom == w.loc.resumeFrom
      totalBatches == CeilDiv(Len(idList) - resumeFrom, ecfg.batchSize)
  IN KeyLoopTop([w EXCEPT !.en.totalIds = Len(idList),
                          !.en.totalBatches = totalBatches,
                          !.loc.idList = idList,
                          !.loc.batch = <<>>,
                          !.loc.batchNum = 0,
                          !.loc.processedCount = resumeFrom,
                          !.loc.errors = IF resumeFrom > 0 THEN w.en.errors ELSE <<>>,
                          !.loc.i = resumeFrom])

\* Lines 493-497: fetchIdsFromSheet threw.
FetchIdsFailed(w, why) ==
  [addEnrichLog(w, 0, "Error fetching IDs")
     EXCEPT !.en.isRunning = FALSE, !.pc = "idle",
            !.trace = Append(@, EnrichEvent("end", 0, why, 0, <<>>))]

\* Lines 499-507: the key list is back.
AfterFetchIds(w, idList) ==
  IF Len(idList) = 0
    THEN [addEnrichLog(w, 0, "No IDs found in sheet")
            EXCEPT !.en.isRunning = FALSE, !.pc = "idle",
                   !.trace = Append(@, EnrichEvent("end", 0, "No IDs", 0, <<>>))]
    ELSE BeginKeys(addEnrichLog([w EXCEPT !.en.idList = idList,
                                          !.en.totalIds = Len(idList)],
                                0, "Found IDs to enrich"),
                   idList)

\* fetchIdsFromSheet, lines 207-225: the cancel check between pages, then the
\* request for the next page of keys.
FetchIdsTop(w) ==
  IF w.cancel THEN FetchIdsFailed(w, "Cancelled")
  ELSE [w EXCEPT !.pc = "fetchIds",
                 !.trace = Append(@, EnrichEvent("getIds", w.loc.start, "page",
                                                 limitOf(ecfg.maxIds, Len(w.loc.allIds)),
                                                 <<>>))]

\* fetchIdsFromSheet, lines 226-251: a page of keys is back.
FetchIdsReturn(w0, reply) ==
  IF reply # "ok" THEN FetchIdsFailed(w0, reply)
  ELSE LET data == handleGetIds(ecfg.column, w0.loc.start,
                                limitOf(ecfg.maxIds, Len(w0.loc.allIds)))
           allIds == w0.loc.allIds \o data.ids
           w == [w0 EXCEPT !.loc.allIds = allIds,
                           !.trace = Append(@, EnrichEvent("ids", w0.loc.start, "page",
                                                           Len(data.ids), data.ids))]
       IN IF IsSome(ecfg.maxIds) /\ Len(allIds) >= Val(ecfg.maxIds)
            THEN AfterFetchIds(w, SubSeq(allIds, 1, Val(ecfg.maxIds)))
          ELSE IF ~data.hasMore THEN AfterFetchIds(w, allIds)
          ELSE FetchIdsTop([w EXCEPT !.loc.start = Val(data.nextStart)])

\* AfterSaveConfig asking the key source on every start.
AfterSaveConfig_AlwaysFetches(w) ==
  FetchIdsTop(addEnrichLog([w EXCEPT !.loc.allIds = <<>>, !.loc.start = 0],
                           0, "Fetching IDs from Google Sheet"))

\* Lines 480-492: the key list: the cached one on a resume, else asked of the
\* key source.
AfterSaveConfig(w) ==
  IF w.loc.resumeFrom > 0 /\ Len(w.en.idList) > 0
    THEN BeginKeys(addEnrichLog(w, 0, "Resuming from ID"), w.en.idList)
    ELSE FetchIdsTop(addEnrichLog([w EXCEPT !.loc.allIds = <<>>, !.loc.start = 0],
                                  0, "Fetching IDs from Google Sheet"))

\* Lines 996-999.
enrichRunning == enrichment.isRunning
enrichComplete == ~enrichment.isRunning /\ enrichment.completedAt # "null"
enrichCanResume ==
  /\ ~enrichment.isRunning
  /\ enrichment.completedAt = "null"
  /\ enrichment.lastProcessedIndex > 0
  /\ Len(enrichment.idList) > 0

(***************************************************************************)
(* The forms and sheets the enrichment runs start from.                    *)
(***************************************************************************)
MaxKeys == 4
MaxEnrichFaults == 2
MaxRuns == 2

BatchSizes == {1, 2, 3}

\* What a behaviour may spend on failed calls, pause clicks and starts: many of
\* one kind, or a few of each.
Budgets ==
  {[faults |-> MaxEnrichFaults, pauses |-> 0, runs |-> 1],
   [faults |-> 0, pauses |-> MaxPauses, runs |-> 1],
   [faults |-> 0, pauses |-> 0, runs |-> MaxRuns],
   [faults |-> 1, pauses |-> 1, runs |-> 2]}

Keys(n) == [i \in 1..n |-> i]

\* The column of n keys with a blank cell put before its b-th key.
WithBlank(n, b) == [i \in 1..(n + 1) |-> IF i < b THEN i ELSE IF i = b THEN Blank ELSE i - 1]

Form(column, batchSize, maxIds, sb, templateOk) ==
  [column |-> column, batchSize |-> batchSize, maxIds |-> maxIds,
   delayMs |-> DefaultEnrichDelayMs, switchboard |-> sb, templateOk |-> templateOk]

\* The form as the modal opens, on an empty sheet.
DefaultForm == Form(<<>>, DefaultBatchSize, None, FALSE, TRUE)

Forms ==
  {Form(Keys(n), b, None, FALSE, TRUE) : n \in 0..MaxKeys, b \in BatchSizes}
  \cup {Form(Keys(MaxKeys - 1), 2, None, TRUE, TRUE)}
  \cup {Form(WithBlank(MaxKeys - 2, b), 2, Some(m), FALSE, TRUE) :
          b \in 1..(MaxKeys - 1), m \in 1..(MaxKeys - 2)}
  \cup {Form(Keys(1), 1, None, FALSE, FALSE)}

EnrichInit(forms, budgets) ==
  /\ ecfg \in forms
  /\ enrichment = InitialEnrichment
  /\ enrichCancelRef = FALSE
  /\ enrichPauseRef = FALSE
  /\ epc = "idle"
  /\ eloc = InitialEnrichLocals
  /\ etrace = <<>>
  /\ \E b \in budgets :
       /\ efaults = b.faults
       /\ epauses = b.pauses
       /\ eruns = b.runs

(***************************************************************************)
(* The spreadsheet receiver.  A cell or a JSON value is a string, a number *)
(* or nothing (an empty cell reads "", a missing property is undefined).   *)
(***************************************************************************)
\* A number, written by its digits; the value of a missing property.
Num(digits) == [t |-> "num", v |-> digits]
Undefined == [t |-> "undefined", v |-> "undefined"]

\* String(value).
StringOf(val) == val.v

\* String.prototype.trim on the strings of the model.
trim(str) ==
  IF str \in {" a", "a "} THEN "a"
  ELSE IF str = " id" THEN "id"
  ELSE str

\* What `value || ""` replaces by "".
IsFalsy(val) == val = Undefined \/ val = Num("0") \/ val = Str("")

NoReply == [kind |-> "none", matched |-> 0, notFound |-> 0, newColumns |-> 0]

MergeReply(kind, matched, notFound, newColumns) ==
  [kind |-> kind, matched |-> matched, notFound |-> notFound, newColumns |-> newColumns]

\* mergeData (receiver, lines 317-437): the sheet after the merge and the
\* status message.  An incoming item is an object [id, x]; "x" is its one
\* field besides the key column.
mergeData(sh, dataArray, keyColumn) ==
  LET headers == sh.headers
      lastCol == Len(headers)
      lastRow == IF lastCol = 0 THEN 0 ELSE 1 + Len(sh.rows)
      keyCols == {h \in DOMAIN headers : trim(headers[h]) = keyColumn}
  IN IF Len(dataArray) = 0
       THEN [sheet |-> sh, reply |-> MergeReply("Empty data array", 0, 0, 0)]
     ELSE IF lastRow = 0 \/ lastCol = 0
       THEN [sheet |-> sh, reply |-> MergeReply("Error: Sheet is empty", 0, 0, 0)]
     ELSE IF keyCols = {}
       THEN [sheet |-> sh, reply |-> MergeReply("Error: Key column not found", 0, 0, 0)]
     ELSE IF lastRow - 1 <= 0
       THEN [sheet |-> sh, reply |-> MergeReply("Error: no data rows", 0, 0, 0)]
     ELSE
       LET keyColIndex == CHOOSE h \in keyCols : \A g \in keyCols : h <= g
           keyOf(i) == trim(StringOf(sh.rows[i][keyColIndex]))
           mapped == {i \in DOMAIN sh.rows : keyOf(i) \notin {"", "undefined", "null"}}
           keyMap(key) ==
             LET hits == {i \in mapped : keyOf(i) = key}
             IN IF hits = {} THEN None
                ELSE Some(CHOOSE i \in hits : \A g \in hits : g <= i)
           known == \E e \in DOMAIN headers : trim(headers[e]) = "x"
           allNewKeys == IF known THEN <<>> ELSE <<"x">>
           fullHeaders == [e \in DOMAIN headers |-> trim(headers[e])] \o allNewKeys
           colIdx == CHOOSE ci \in DOMAIN fullHeaders :
                       /\ fullHeaders[ci] = "x"
                       /\ \A g \in DOMAIN fullHeaders : fullHeaders[g] = "x" => ci <= g
           itemKey(m) ==
             LET val == dataArray[m].id
             IN trim(StringOf(IF IsFalsy(val) THEN Str("") ELSE val))
           matchedItems == {m \in DOMAIN dataArray : IsSome(keyMap(itemKey(m)))}
           writers(i) == {m \in matchedItems : Val(keyMap(itemKey(m))) = i}
           rowAfter(i) ==
             LET row == sh.rows[i] \o [e \in 1..(Len(fullHeaders) - Len(sh.rows[i])) |-> Str("")]
             IN IF writers(i) = {} THEN sh.rows[i]
                ELSE LET last == CHOOSE m \in writers(i) : \A g \in writers(i) : g <= m
                     IN [row EXCEPT ![colIdx] = dataArray[last].x]
       IN [sheet |-> [headers |-> headers \o allNewKeys,
                      rows |-> [i \in DOMAIN sh.rows |-> rowAfter(i)]],
           reply |-> MergeReply("Merged", Cardinality(matchedItems),
                                Len(dataArray) - Cardinality(matchedItems),
                                Len(allNewKeys))]

(***************************************************************************)
(* The sheets and merge envelopes the receiver is given.                   *)
(***************************************************************************)
MaxRows == 2
MaxIncoming == 2

\* The key cells of the sheet's rows, and the key values of incoming items.
CellKeys == {Str("a"), Str(" a"), Str("b"), Num("0"), Str("")}
IncomingKeys == {Str("a"), Str("c"), Num("0"), Undefined}

HeaderRows == {<<>>, <<"name">>, <<"id">>, <<"name", " id">>, <<"id", "x">>}

SeqsUpTo(S, n) == UNION {[1..m -> S] : m \in 0..n}

\* A sheet with the header row hs whose rows carry the cells ks in the column
\* headed "id" (in the first column when there is none) and are blank
\* elsewhere; a sheet without a header row has no rows.
SheetOf(hs, ks) ==
  LET col == IF \E e \in DOMAIN hs : trim(hs[e]) = "id"
               THEN CHOOSE e \in DOMAIN hs : trim(hs[e]) = "id" ELSE 1
  IN [headers |-> hs,
      rows |-> [i \in DOMAIN ks |-> [e \in DOMAIN hs |-> IF e = col THEN ks[i] ELSE Str("")]]]

Sheets ==
  {SheetOf(hs, ks) : hs \in HeaderRows \ {<<>>}, ks \in SeqsUpTo(CellKeys, MaxRows)}
  \cup {SheetOf(<<>>, <<>>)}

Payloads == SeqsUpTo({[id |-> k, x |-> Num("1")] : k \in IncomingKeys}, MaxIncoming)

NoPost == [before |-> SheetOf(<<>>, <<>>), data |-> <<>>]

ReceiverInit(sheets) ==
  /\ sheet \in sheets
  /\ lastPost = NoPost
  /\ lastReply = NoReply

(***************************************************************************)
(* The cURL panel: handleParse infers the pagination from the names of     *)
(* the request's query parameters, executeFetch refines it from the        *)
(* response.                                                               *)
(***************************************************************************)
\* paramKeys.find(k => names.includes(k)); undefined is None.
FindIn(paramKeys, names) ==
  LET hits == {i \in DOMAIN paramKeys : paramKeys[i] \in names}
  IN IF hits = {} THEN None
     ELSE Some(paramKeys[CHOOSE i \in hits : \A j \in hits : i <= j])

\* a || b
OrElse(o, default) == IF IsSome(o) THEN Val(o) ELSE default

\* The store's pagination record (part_001 lines 57-70), without the page
\* size.  An entry of prevCursors is a URL or a token, named like the URLs and
\* tokens of the responses by the page it leads to.
InitialPagination ==
  [mode |-> "none", pageParamName |-> "page", perPageParamName |-> "per_page",
   hasDetected |-> FALSE, cursorParamName |-> None, nextCursor |-> None,
   nextPageUrl |-> None, currentPage |-> 1, prevCursors |-> <<>>]

UrlEntry(v) == [k |-> "url", v |-> v]
CursorEntry(v) == [k |-> "cursor", v |-> v]

\* parsedRequest.url with the parsed parameters: the URL of the first page.
OriginalUrl == 1

\* The argument of executeFetch: undefined, 'next', 'prev' or a page number.
Direction(t) == [t |-> t, n |-> 0]
NoArgument == Direction("undefined")
PageNumber(n) == [t |-> "number", n |-> n]

\* handleParse, lines 51-109: the pagination after parsing a request with
\* these query parameters; the page parameter of the request has the value 1.
inferPagination(p, paramKeys) ==
  LET detectedPageParam == FindIn(paramKeys, PAGE_PARAM_NAMES)
      detectedPerPageParam == FindIn(paramKeys, PER_PAGE_PARAM_NAMES)
      detectedCursorParam == FindIn(paramKeys, CURSOR_PARAM_NAMES)
      detectedOffsetParam == FindIn(paramKeys, OFFSET_PARAM_NAMES)
  IN IF IsSome(detectedCursorParam)
       THEN [p EXCEPT !.mode = "cursor", !.cursorParamName = detectedCursorParam,
                      !.perPageParamName = OrElse(detectedPerPageParam, "limit"),
                      !.hasDetected = TRUE, !.currentPage = 1, !.nextCursor = None,
                      !.prevCursors = <<>>, !.nextPageUrl = None]
     ELSE IF IsSome(detectedPageParam)
       THEN [p EXCEPT !.mode = "page", !.pageParamName = Val(detectedPageParam),
                      !.perPageParamName = OrElse(detectedPerPageParam, "per_page"),
                      !.currentPage = 1, !.hasDetected = TRUE, !.nextCursor = None,
                      !.prevCursors = <<>>, !.cursorParamName = None,
                      !.nextPageUrl = None]
     ELSE IF IsSome(detectedOffsetParam)
       THEN [p EXCEPT !.mode = "page", !.pageParamName = Val(detectedOffsetParam),
                      !.perPageParamName = OrElse(detectedPerPageParam, "limit"),
                      !.currentPage = 1, !.hasDetected = TRUE, !.nextCursor = None,
                      !.prevCursors = <<>>, !.cursorParamName = None,
                      !.nextPageUrl = None]
     ELSE IF IsSome(detectedPerPageParam)
       THEN [p EXCEPT !.mode = "cursor", !.perPageParamName = Val(detectedPerPageParam),
                      !.hasDetected = TRUE, !.currentPage = 1, !.nextCursor = None,
                      !.prevCursors = <<>>, !.cursorParamName = None,
                      !.nextPageUrl = None]
     ELSE p

\* guessCursorParamName (part_005 lines 536-545).
guessCursorParamName(responsePath) ==
  IF responsePath = "nextPageToken" THEN "pageToken" ELSE "cursor"

\* Lines 460-464 and 495-499: the entry for the Back stack.  With a cursor in
\* the response the original URL stands in when the store holds no next URL
\* and no token; without one there is then no entry (None).
currentEntryOf(captured, found) ==
  IF IsSome(captured.nextPageUrl) THEN Some(UrlEntry(Val(captured.nextPageUrl)))
  ELSE IF IsSome(captured.nextCursor) THEN Some(CursorEntry(Val(captured.nextCursor)))
  ELSE IF found THEN Some(UrlEntry(OriginalUrl))
  ELSE None

\* refinePagination that counts the page of a Next without pushing its entry.
refinePagination_NoPush(cur, captured, result, pageOrDirection) ==
  IF result.success /\ result.data.kind # "empty"
    THEN LET cursorInfo == detectCursorFromResponse(result.data)
             currentEntry == currentEntryOf(captured, cursorInfo.found)
             moved == IF pageOrDirection.t = "next" /\ IsSome(currentEntry)
                        THEN [cur EXCEPT !.currentPage = captured.currentPage + 1]
                      ELSE IF pageOrDirection.t # "prev" /\ pageOrDirection.t # "next"
                                /\ cursorInfo.found
                        THEN [cur EXCEPT !.currentPage = 1, !.prevCursors = <<>>]
                      ELSE cur
         IN IF cursorInfo.found
              THEN IF cursorInfo.isUrl
                     THEN [moved EXCEPT !.hasDetected = TRUE, !.mode = "cursor",
                                        !.nextPageUrl = Some(cursorInfo.value),
                                        !.nextCursor = None]
                     ELSE [moved EXCEPT !.hasDetected = TRUE, !.mode = "cursor",
                                        !.nextCursor = Some(cursorInfo.value),
                                        !.nextPageUrl = None,
                                        !.cursorParamName =
                                          IF IsSome(captured.cursorParamName) THEN @
                                          ELSE Some(guessCursorParamName(cursorInfo.path))]
            ELSE IF captured.mode = "cursor"
              THEN [moved EXCEPT !.nextCursor = None, !.nextPageUrl = None]
            ELSE cur
    ELSE cur

\* refinePagination that takes a cursor it already holds for the end of the list.
refinePagination_RepeatEnds(cur, captured, result, pageOrDirection) ==
  IF result.success /\ result.data.kind # "empty"
    THEN LET cursorInfo == detectCursorFromResponse(result.data)
             currentEntry == currentEntryOf(captured, cursorInfo.found)
             moved == IF pageOrDirection.t = "next" /\ IsSome(currentEntry)
                        THEN [cur EXCEPT !.currentPage = captured.currentPage + 1,
                                         !.prevCursors = Append(captured.prevCursors,
                                                                Val(currentEntry))]
                      ELSE IF pageOrDirection.t # "prev" /\ pageOrDirection.t # "next"
                                /\ cursorInfo.found
                        THEN [cur EXCEPT !.currentPage = 1, !.prevCursors = <<>>]
                      ELSE cur
         IN IF /\ cursorInfo.found
               /\ Some(cursorInfo.value) \in {cur.nextCursor, cur.nextPageUrl}
              THEN [moved EXCEPT !.nextCursor = None, !.nextPageUrl = None]
            ELSE IF cursorInfo.found
              THEN IF cursorInfo.isUrl
                     THEN [moved EXCEPT !.hasDetected = TRUE, !.mode = "cursor",
                                        !.nextPageUrl = Some(cursorInfo.value),
                                        !.nextCursor = None]
                     ELSE [moved EXCEPT !.hasDetected = TRUE, !.mode = "cursor",
                                        !.nextCursor = Some(cursorInfo.value),
                                        !.nextPageUrl = None,
                                        !.cursorParamName =
                                          IF IsSome(captured.cursorParamName) THEN @
                                          ELSE Some(guessCursorParamName(cursorInfo.path))]
            ELSE IF captured.mode = "cursor"
              THEN [moved EXCEPT !.nextCursor = None, !.nextPageUrl = None]
            ELSE cur
    ELSE cur

\* refinePagination storing a detected next URL as the cursor token.
refinePagination_UrlAsToken(cur, captured, result, pageOrDirection) ==
  IF result.success /\ result.data.kind # "empty"
    THEN LET cursorInfo == detectCursorFromResponse(result.data)
         IN IF cursorInfo.found
              THEN [cur EXCEPT !.hasDetected = TRUE, !.mode = "cursor",
                               !.nextCursor = Some(cursorInfo.value),
                               !.nextPageUrl = None]
            ELSE IF captured.mode = "cursor"
              THEN [cur EXCEPT !.nextCursor = None, !.nextPageUrl = None]
            ELSE cur
    ELSE cur

\* refinePagination writing only the field of the cursor it found.
refinePagination_OtherKept(cur, captured, result, pageOrDirection) ==
  IF result.success /\ result.data.kind # "empty"
    THEN LET cursorInfo == detectCursorFromResponse(result.data)
         IN IF cursorInfo.found
              THEN IF cursorInfo.isUrl
                     THEN [cur EXCEPT !.hasDetected = TRUE, !.mode = "cursor",
                                      !.nextPageUrl = Some(cursorInfo.value)]
                     ELSE [cur EXCEPT !.hasDetected = TRUE, !.mode = "cursor",
                                      !.nextCursor = Some(cursorInfo.value)]
            ELSE IF captured.mode = "cursor"
              THEN [cur EXCEPT !.nextCursor = None, !.nextPageUrl = None]
            ELSE cur
    ELSE cur

\* executeFetch, lines 454-510: the pagination after a response; `captured`
\* is the record executeFetch read when it was called, `cur` the store's.
refinePagination(cur, captured, result, pageOrDirection) ==
  IF result.success /\ result.data.kind # "empty"
    THEN LET cursorInfo == detectCursorFromResponse(result.data)
             currentEntry == currentEntryOf(captured, cursorInfo.found)
             moved == IF pageOrDirection.t = "next" /\ IsSome(currentEntry)
                        THEN [cur EXCEPT !.currentPage = captured.currentPage + 1,
                                         !.prevCursors = Append(captured.prevCursors,
                                                                Val(currentEntry))]
                      ELSE IF pageOrDirection.t # "prev" /\ pageOrDirection.t # "next"
                                /\ cursorInfo.found
                        THEN [cur EXCEPT !.currentPage = 1, !.prevCursors = <<>>]
                      ELSE cur
         IN IF cursorInfo.found
              THEN IF cursorInfo.isUrl
                     THEN [moved EXCEPT !.hasDetected = TRUE, !.mode = "cursor",
                                        !.nextPageUrl = Some(cursorInfo.value),
                                        !.nextCursor = None]
                     ELSE [moved EXCEPT !.hasDetected = TRUE, !.mode = "cursor",
                                        !.nextCursor = Some(cursorInfo.value),
                                        !.nextPageUrl = None,
                                        !.cursorParamName =
                                          IF IsSome(captured.cursorParamName) THEN @
                                          ELSE Some(guessCursorParamName(cursorInfo.path))]
            ELSE IF captured.mode = "cursor"
              THEN [moved EXCEPT !.nextCursor = None, !.nextPageUrl = None]
            ELSE cur
    ELSE cur

\* executeFetch, lines 327-408: the request it builds.
requestOf(p, pageOrDirection) ==
  IF p.mode = "cursor"
    THEN IF pageOrDirection.t = "next" /\ IsSome(p.nextPageUrl)
           THEN [kind |-> "url", val |-> Val(p.nextPageUrl)]
         ELSE IF pageOrDirection.t = "next" /\ IsSome(p.nextCursor)
                   /\ IsSome(p.cursorParamName)
           THEN [kind |-> "token", val |-> Val(p.nextCursor)]
         ELSE IF pageOrDirection.t = "prev" /\ Len(p.prevCursors) > 0
           THEN LET prevEntry == p.prevCursors[Len(p.prevCursors)]
                IN IF prevEntry.k = "url" THEN [kind |-> "url", val |-> prevEntry.v]
                   ELSE [kind |-> "token", val |-> prevEntry.v]
         ELSE [kind |-> "first", val |-> 0]
  ELSE IF p.mode = "page" /\ p.hasDetected
    THEN [kind |-> "page",
          val |-> IF pageOrDirection.t = "number" THEN pageOrDirection.n
                  ELSE p.currentPage]
  ELSE [kind |-> "plain", val |-> 0]

\* executeFetch, lines 348-380 and 405-407: what building the request writes
\* to the store.
paginationAtCall(p, pageOrDirection) ==
  IF p.mode = "cursor"
    THEN IF /\ ~(pageOrDirection.t = "next" /\ IsSome(p.nextPageUrl))
            /\ ~(pageOrDirection.t = "next" /\ IsSome(p.nextCursor)
                   /\ IsSome(p.cursorParamName))
            /\ pageOrDirection.t = "prev" /\ Len(p.prevCursors) > 0
           THEN [p EXCEPT !.prevCursors = SubSeq(@, 1, Len(@) - 1),
                          !.currentPage = Max(1, @ - 1)]
           ELSE p
  ELSE IF p.mode = "page" /\ p.hasDetected /\ pageOrDirection.t = "number"
    THEN [p EXCEPT !.currentPage = pageOrDirection.n]
  ELSE p

\* No executeFetch is under way; pageOrDirection is the argument of the last
\* call; refetch is "none", or the mode handlePerPageChange saw when it set
\* its timer, which is pending; executeError says that the store holds one.
NoExec ==
  [pc |-> "idle", pagination |-> InitialPagination, request |-> [kind |-> "plain", val |-> 0],
   retryCount |-> 0, pageOrDirection |-> NoArgument, refetch |-> "none",
   executeError |-> FALSE, rateLimit |-> [retryCount |-> 0]]

\* The panel before the first parse.
PanelInit ==
  /\ parsedRequest = None
  /\ pagination = InitialPagination
  /\ exec = NoExec
  /\ apiResponse = None
  /\ lastOp = "none"

(***************************************************************************)
(* The runs the model starts from.                                         *)
(***************************************************************************)
DefaultMaxRetries == 3
DefaultDelayMs == 500
PageSize == 2

RetryConfigs ==
  {[retryOn429 |-> TRUE, maxRetries |-> 1],
   [retryOn429 |-> TRUE, maxRetries |-> DefaultMaxRetries],
   [retryOn429 |-> FALSE, maxRetries |-> DefaultMaxRetries]}

Config(mode, style, param, n, size, btMode, delay, rc, sb, target) ==
  [mode |-> mode, cursorStyle |-> style, cursorParamName |-> param,
   itemCount |-> n, perPage |-> size, btMode |-> btMode, maxPages |-> 2,
   delayMs |-> delay, retryOn429 |-> rc.retryOn429, maxRetries |-> rc.maxRetries,
   switchboard |-> sb, target |-> target, pageParamName |-> "page",
   dateField |-> "", dateFrom |-> "", dateTo |-> "", dates |-> <<NoDate>>]

PaginationModes ==
  {<<"page", "url", None>>, <<"cursor", "url", None>>,
   <<"cursor", "token", Some("cursor")>>, <<"cursor", "token", None>>,
   <<"none", "url", None>>}

\* The runtime and the sink: the browser (no window.switchboard) sending to the
\* spreadsheet receiver, Electron sending to the workflow webhook.
Runtimes == {<<FALSE, "gsheet">>, <<TRUE, "n8n">>}

\* Every pagination mode, source size, runtime and sink, with the default delay
\* and one retry.
BaseConfigs ==
  {Config(m[1], m[2], m[3], n, PageSize, "all", DefaultDelayMs,
          [retryOn429 |-> TRUE, maxRetries |-> 1], rt[1], rt[2]) :
     m \in PaginationModes, n \in 0..MaxItems, rt \in Runtimes}

\* The other retry settings, no delay between requests, and a page limit.
VariedConfigs ==
  {Config("page", "url", None, MaxItems, PageSize, btMode, delay, rc, FALSE, "gsheet") :
     btMode \in {"all", "pages"}, delay \in {0, DefaultDelayMs}, rc \in RetryConfigs}

\* The run of the specification's example: 25 items in pages of 10.
ExampleConfig ==
  Config("page", "url", None, 25, 10, "all", DefaultDelayMs,
         [retryOn429 |-> TRUE, maxRetries |-> DefaultMaxRetries], FALSE, "gsheet")

\* The date values the items of a source carry, in turn.
DatePatterns ==
  {<<DateStr("d2"), NoDate, DateStr("d3"), DateStr("junk")>>,
   <<ZeroDate, DateStr("d1"), DateStr(""), DateStr("d2")>>,
   <<DateStr("d3"), DateStr("d3"), DateStr("d2"), DateStr("d1")>>}

\* The windows: no bound, a lower one, an upper one, both.
DateWindows == {<<"", "">>, <<"d2", "">>, <<"", "d2">>, <<"d2", "d3">>}

\* Date range runs over MaxItems items, by page number and by next URL.
DateConfigs ==
  {[Config(mode, "url", None, MaxItems, PageSize, "dateRange", 0,
           [retryOn429 |-> TRUE, maxRetries |-> 1], FALSE, "gsheet")
      EXCEPT !.dateField = "created_at", !.dateFrom = win[1], !.dateTo = win[2],
             !.dates = pat] :
     mode \in {"page", "cursor"}, win \in DateWindows, pat \in DatePatterns}

\* A page limit of 2 on a source that has a third full page.
CappedConfig ==
  Config("page", "url", None, 3 * PageSize, PageSize, "pages", DefaultDelayMs,
         [retryOn429 |-> TRUE, maxRetries |-> 1], FALSE, "gsheet")

Configs ==
  BaseConfigs \cup VariedConfigs \cup DateConfigs \cup {ExampleConfig, CappedConfig}

InitialBulkTransport ==
  [isRunning |-> FALSE, isPaused |-> FALSE, isCancelled |-> FALSE,
   currentPage |-> 0, totalPagesSent |-> 0, totalItemsSent |-> 0,
   errors |-> <<>>, log |-> <<>>, startedAt |-> "null", completedAt |-> "null"]

NoRequest == [kind |-> "plain", val |-> 0]
InitialLocals ==
  [pageNum |-> 0, totalItems |-> 0, totalPages |-> 0, nextPageUrl |-> None,
   nextCursor |-> None, isFirstPage |-> TRUE, reachedEnd |-> FALSE, errors |-> <<>>,
   retries |-> 0, requestConfig |-> NoRequest, result |-> NoResult, dataArray |-> <<>>]

\* The modal is open, nothing has been started.
\* The modal is open and no loop of an earlier mount is left.
ModalInit ==
  /\ modal = "open"
  /\ opc = "none"
  /\ oloc = InitialLocals
  /\ opause = FALSE

TransportInit(configs, faultBudget) ==
  /\ ModalInit
  /\ PanelInit
  /\ cfg \in configs
  /\ bulkTransport = InitialBulkTransport
  /\ cancelRef = FALSE
  /\ pauseRef = FALSE
  /\ pc = "idle"
  /\ loc = InitialLocals
  /\ trace = <<>>
  /\ faults = faultBudget
  /\ pauses = MaxPauses

Init ==
  /\ TransportInit(Configs, MaxFaults)
  /\ EnrichInit({DefaultForm}, {[faults |-> 0, pauses |-> 0, runs |-> 1]})
  /\ ReceiverInit({SheetOf(<<>>, <<>>)})

\* The run of startTransport's code ends in world w.
Becomes(w) ==
  /\ bulkTransport' = w.bt
  /\ loc' = w.loc
  /\ pc' = w.pc
  /\ trace' = w.trace

\* Lines 718-741: the Start button.  With window.switchboard the settings are
\* saved first (an await); without it the loop is entered at once.
startTransport ==
  /\ modal = "open"
  /\ pc = "idle"
  /\ cancelRef' = FALSE
  /\ pauseRef' = FALSE
  /\ LET w == [World EXCEPT !.bt = [bulkTransport EXCEPT
                                      !.isRunning = TRUE, !.isPaused = FALSE,
                                      !.isCancelled = FALSE, !.currentPage = 0,
                                      !.totalPagesSent = 0, !.totalItemsSent = 0,
                                      !.errors = <<>>, !.log = <<>>,
                                      !.startedAt = "set", !.completedAt = "null"],
                            !.loc = InitialLocals,
                            !.cancel = FALSE, !.pause = FALSE]
     IN IF cfg.switchboard
          THEN Becomes([w EXCEPT !.pc = "saveConfig"])
          ELSE Becomes(LoopTop(w))
  /\ UNCHANGED <<pvars, ovars, mvars, evars, cfg, faults, pauses>>

\* Lines 735-740: the settings are saved; the page loop starts.
SaveConfigDone ==
  /\ pc = "saveConfig"
  /\ Becomes(LoopTop(World))
  /\ UNCHANGED <<pvars, ovars, mvars, evars, cfg, cancelRef, pauseRef, faults, pauses>>

\* Lines 759-761: sleep(500) of the pause loop is over and the loop's
\* condition no longer holds.
PauseWake ==
  /\ pc = "pauseSleep"
  /\ ~(pauseRef /\ ~cancelRef)
  /\ Becomes(AfterPause(World))
  /\ UNCHANGED <<pvars, ovars, mvars, evars, cfg, cancelRef, pauseRef, faults, pauses>>

\* Lines 825-828: the rate-limit delay is over.
DelayDone ==
  /\ pc = "delaySleep"
  /\ Becomes(RetryTop(World))
  /\ UNCHANGED <<pvars, ovars, mvars, evars, cfg, cancelRef, pauseRef, faults, pauses>>

\* Lines 851-852: the wait after a 429 is over; `continue`.
BackoffDone ==
  /\ pc = "backoffSleep"
  /\ Becomes(RetryTop(World))
  /\ UNCHANGED <<pvars, ovars, mvars, evars, cfg, cancelRef, pauseRef, faults, pauses>>

\* Lines 857-860: the wait after a thrown call is over; `continue`.
ErrorSleepDone ==
  /\ pc = "errorSleep"
  /\ Becomes(RetryTop(World))
  /\ UNCHANGED <<pvars, ovars, mvars, evars, cfg, cancelRef, pauseRef, faults, pauses>>

\* The source answers with the page.
FetchOk ==
  /\ pc = "fetching"
  /\ Becomes(FetchReturn(World, [k |-> "ok", ra |-> NoHeader, msg |-> NoMessage]))
  /\ UNCHANGED <<pvars, ovars, mvars, evars, cfg, cancelRef, pauseRef, faults, pauses>>

\* The source answers with an error status, or not at all.
FetchFault ==
  /\ pc = "fetching"
  /\ faults > 0
  /\ \E o \in FetchOutcomes(cfg) :
       /\ o.k # "ok"
       /\ Becomes(FetchReturn(World, o))
  /\ faults' = faults - 1
  /\ UNCHANGED <<pvars, ovars, mvars, evars, cfg, cancelRef, pauseRef, pauses>>

\* The sink takes the batch.
SendOk ==
  /\ pc = "sending"
  /\ \E r \in SinkReplies(cfg) :
       /\ SinkVerdict(r) = "accepted"
       /\ Becomes(SendReturn(World, r))
  /\ UNCHANGED <<pvars, ovars, mvars, evars, cfg, cancelRef, pauseRef, faults, pauses>>

\* The sink rejects the batch, or the call fails.
SendFault ==
  /\ pc = "sending"
  /\ faults > 0
  /\ \E r \in SinkReplies(cfg) :
       /\ SinkVerdict(r) # "accepted"
       /\ Becomes(SendReturn(World, r))
  /\ faults' = faults - 1
  /\ UNCHANGED <<pvars, ovars, mvars, evars, cfg, cancelRef, pauseRef, pauses>>

\* Lines 412-415.  The Cancel button is rendered while isRunning.
handleCancel ==
  /\ bulkTransport.isRunning
  /\ ~cancelRef
  /\ cancelRef' = TRUE
  /\ bulkTransport' = [bulkTransport EXCEPT !.isCancelled = TRUE]
  /\ trace' = Append(trace, Event("cancel", loc.pageNum, pc, 0, <<>>))
  /\ UNCHANGED <<pvars, ovars, mvars, evars, cfg, pauseRef, pc, loc, faults, pauses>>

\* Lines 407-410.  The Pause/Resume button is rendered while isRunning.
handlePause ==
  /\ bulkTransport.isRunning
  /\ pauseRef \/ pauses > 0
  /\ pauseRef' = ~pauseRef
  /\ bulkTransport' = [bulkTransport EXCEPT !.isPaused = ~pauseRef]
  /\ pauses' = IF pauseRef THEN pauses ELSE pauses - 1
  /\ UNCHANGED <<pvars, ovars, mvars, evars, cfg, cancelRef, pc, loc, trace, faults>>

Next ==
  \/ startTransport
  \/ SaveConfigDone
  \/ PauseWake
  \/ DelayDone
  \/ BackoffDone
  \/ ErrorSleepDone
  \/ FetchOk
  \/ FetchFault
  \/ SendOk
  \/ SendFault
  \/ handleCancel
  \/ handlePause

Spec == Init /\ [][Next]_vars

(***************************************************************************)
(* Reading the trace.                                                      *)
(***************************************************************************)
Events(kind) == SelectSeq(trace, LAMBDA ev : ev.e = kind)

Positions(kind) == {i \in DOMAIN trace : trace[i].e = kind}

\* The batches handed to the sink, in the order of the calls.
Deliveries == [i \in DOMAIN Events("send") |-> Events("send")[i].items]

\* The pages asked of the source, in the order of the calls.
RequestedPages == [i \in DOMAIN Events("request") |-> ServedPage(Events("request")[i])]

\* What a run hands to the sink of the source's page p.
BatchOf(c, p) ==
  IF DateFiltering(c) THEN SelectSeq(PageItems(c, p), LAMBDA i : KeepsItem(c, i))
  ELSE PageItems(c, p)

NonEmptyPages(c) == (c.itemCount + c.perPage - 1) \div c.perPage

\* No call failed and nobody cancelled.
UndisturbedRun == faults = MaxFaults /\ ~cancelRef

(***************************************************************************)
(* C1.  In page-number mode an exhaustive run in which every fetch and     *)
(* every delivery succeeds hands the source's pages to the sink in the     *)
(* order fetched, items unchanged, and ends with totalItemsSent = N and    *)
(* totalPagesSent = the number of non-empty pages; 25 items in pages of 10 *)
(* give three deliveries of 10, 10 and 5 items.                            *)
(***************************************************************************)
C1_ExhaustivePageRun ==
  (pc = "done" /\ cfg.mode = "page" /\ cfg.btMode = "all" /\ UndisturbedRun) =>
    /\ Deliveries = [p \in 1..NonEmptyPages(cfg) |-> PageItems(cfg, p)]
    /\ \A i \in DOMAIN Deliveries : RequestedPages[i] = i
    /\ bulkTransport.totalItemsSent = cfg.itemCount
    /\ bulkTransport.totalPagesSent = NonEmptyPages(cfg)
    /\ bulkTransport.errors = <<>>
    /\ (cfg = ExampleConfig =>
          /\ [i \in DOMAIN Deliveries |-> Len(Deliveries[i])] = <<10, 10, 5>>
          /\ bulkTransport.totalItemsSent = 25)

C1_Witness ==
  /\ pc = "done" /\ cfg = ExampleConfig /\ UndisturbedRun
  /\ Len(Deliveries) = 3
  /\ bulkTransport.totalItemsSent = 25

(***************************************************************************)
(* C2.  Once Cancel has been clicked, the job makes no new request to the  *)
(* source and hands no further batch to the sink; only the answer to a     *)
(* call already in flight may still arrive.  This holds wherever the job    *)
(* was suspended when the click came.                                      *)
(***************************************************************************)
C2_NoCallAfterCancel ==
  \A i \in Positions("cancel") : \A j \in DOMAIN trace :
    j > i => trace[j].e \notin {"request", "send"}

\* A run cancelled during a 429 backoff wait has ended.
C2_Witness ==
  /\ pc = "done"
  /\ \E i \in Positions("cancel") : trace[i].kind = "backoffSleep"

(***************************************************************************)
(* C11.  With a page limit (mode "pages") over a page-number source whose  *)
(* every requested page is full, a run in which nothing fails and nobody   *)
(* cancels requests exactly the pages 1..maxPages, in this order, hands    *)
(* each of them to the sink, and does not end before the limit.            *)
(***************************************************************************)
EveryPageFull(c) == c.itemCount >= c.maxPages * c.perPage

C11_MaxPagesRun ==
  (cfg.mode = "page" /\ cfg.btMode = "pages" /\ EveryPageFull(cfg) /\ UndisturbedRun) =>
    /\ Len(RequestedPages) <= cfg.maxPages
    /\ \A i \in DOMAIN RequestedPages :
         RequestedPages[i] = i /\ Events("request")[i].val = i
    /\ pc = "done" =>
         /\ Len(RequestedPages) = cfg.maxPages
         /\ Deliveries = [p \in 1..cfg.maxPages |-> PageItems(cfg, p)]
         /\ bulkTransport.totalPagesSent = cfg.maxPages

\* A run with a page limit has ended on a source that had a further full page.
C11_Witness ==
  /\ pc = "done" /\ cfg.mode = "page" /\ cfg.btMode = "pages" /\ UndisturbedRun
  /\ cfg.itemCount >= (cfg.maxPages + 1) * cfg.perPage
  /\ Len(RequestedPages) = cfg.maxPages
  /\ Len(Deliveries[cfg.maxPages]) = cfg.perPage

(***************************************************************************)
(* C12.  In cursor mode an exhaustive run in which nothing fails and       *)
(* nobody cancels asks for a further page exactly when the last answer     *)
(* carried a next-page signal that detectCursorFromResponse recognizes: a  *)
(* next URL is then requested as the whole URL, a token is sent as the      *)
(* cursor parameter.  The code ends the run on a token when the store      *)
(* holds no cursorParamName: see RESULTS.json.                             *)
(***************************************************************************)
SignalOf(c, req) == detectCursorFromResponse(PageBody(c, req))

C12_CursorRunFollowsSignal ==
  (pc = "done" /\ cfg.mode = "cursor" /\ cfg.btMode = "all" /\ UndisturbedRun) =>
    LET reqs == Events("request")
    IN /\ Len(reqs) >= 1 /\ reqs[1].kind = "first"
       /\ \A i \in DOMAIN reqs :
            LET signal == SignalOf(cfg, reqs[i])
            IN /\ signal.found <=> i < Len(reqs)
               /\ i < Len(reqs) =>
                    /\ reqs[i + 1].kind = IF signal.isUrl THEN "url" ELSE "token"
                    /\ reqs[i + 1].val = signal.value

(***************************************************************************)
(* Fairness: a pending timer fires and a call in flight returns (Advance); *)
(* a pause is lifted again (Unpause).                                      *)
(***************************************************************************)
Advance ==
  \/ SaveConfigDone
  \/ PauseWake
  \/ DelayDone
  \/ BackoffDone
  \/ ErrorSleepDone
  \/ FetchOk
  \/ FetchFault
  \/ SendOk
  \/ SendFault

Unpause == pauseRef /\ handlePause

\* The runs whose termination is checked: every pagination mode and sink, a
\* source of more than one page, the runtime in which a call can also throw.
LiveConfigs == {c \in BaseConfigs : c.itemCount = MaxItems - 1 /\ c.switchboard}

LiveInit ==
  /\ TransportInit(LiveConfigs, MaxLiveFaults)
  /\ EnrichInit({DefaultForm}, {[faults |-> 0, pauses |-> 0, runs |-> 1]})
  /\ ReceiverInit({SheetOf(<<>>, <<>>)})

SpecLive == LiveInit /\ [][Next]_vars /\ WF_vars(Advance) /\ WF_vars(Unpause)

(***************************************************************************)
(* C3.  Every started job terminates, and a terminated job has isRunning   *)
(* false and completedAt set, also when it was cancelled; the log of a     *)
(* cancelled job records the cancellation.                                 *)
(***************************************************************************)
Terminated ==
  /\ ~bulkTransport.isRunning
  /\ bulkTransport.completedAt = "set"
  /\ cancelRef =>
       \E k \in DOMAIN bulkTransport.log :
         bulkTransport.log[k].status \in {"cancelled", "DONE: Cancelled"}

C3_Termination ==
  /\ bulkTransport.isRunning ~> pc = "done"
  /\ [](pc = "done" => Terminated)

\* A cancelled job has ended.
C3_Witness == pc = "done" /\ cancelRef /\ bulkTransport.completedAt = "set"

\* The click on Cancel came before position i of the trace.
CancelledBefore(i) == \E j \in Positions("cancel") : j < i

ErrorLogged(page) ==
  \E k \in DOMAIN bulkTransport.errors : bulkTransport.errors[k].page = page

RequestsFor(page) == {i \in Positions("request") : trace[i].page = page}

(***************************************************************************)
(* C13.  The window [from, to] of a date range run, read from the          *)
(* configuration: an item satisfies it when its date field parses to an    *)
(* instant that is not before `from` and not after `to`, a bound that is    *)
(* not set imposing no limit.                                              *)
(***************************************************************************)
Instant(c, i) == ParseDate(ItemDate(c, i))

InWindow(c, i) ==
  /\ IsSome(Instant(c, i))
  /\ c.dateFrom # "" => Val(Instant(c, i)) >= Val(ParseDate(DateStr(c.dateFrom)))
  /\ c.dateTo # "" => Val(Instant(c, i)) <= Val(ParseDate(DateStr(c.dateTo)))

\* The source's page that the request(s) for the run's page number asked for.
PageAsked(page) == PageItems(cfg, ServedPage(trace[CHOOSE i \in RequestsFor(page) : TRUE]))

\* Every batch handed to the sink is its page reduced to the items for which
\* `wanted` holds, and a page answered before any cancel that has such an
\* item is handed to the sink.
DeliversExactly(wanted(_)) ==
  /\ \A j \in Positions("send") :
       trace[j].items = SelectSeq(PageAsked(trace[j].page), wanted)
  /\ \A i \in Positions("response") :
       (/\ trace[i].kind = "ok" /\ ~CancelledBefore(i)
        /\ \E k \in DOMAIN PageAsked(trace[i].page) : wanted(PageAsked(trace[i].page)[k]))
         => /\ i < Len(trace)
            /\ trace[i + 1].e = "send" /\ trace[i + 1].page = trace[i].page

(***************************************************************************)
(* C13 as stated: in a date range run every batch holds exactly the items  *)
(* of its page whose date field parses and lies within the window; items   *)
(* with a missing or unparseable field are dropped.                        *)
(***************************************************************************)
C13_DateWindowFilter ==
  cfg.btMode = "dateRange" => DeliversExactly(LAMBDA i : InWindow(cfg, i))

(***************************************************************************)
(* C13, amended: the same when at least one bound is set, an item whose    *)
(* date field is falsy (missing, empty, or the number 0) counting as       *)
(* having none.  (With neither bound set the pages are not filtered.)      *)
(***************************************************************************)
C13_DateWindowFilterBounded ==
  (cfg.btMode = "dateRange" /\ (cfg.dateFrom # "" \/ cfg.dateTo # "")) =>
    DeliversExactly(LAMBDA i : InWindow(cfg, i) /\ ~IsFalsyDate(ItemDate(cfg, i)))

\* A date range run with both bounds has handed over a batch from which an
\* item was dropped.
C13_Witness ==
  /\ cfg.btMode = "dateRange" /\ cfg.dateFrom # "" /\ cfg.dateTo # ""
  /\ \E j \in Positions("send") :
       /\ Len(trace[j].items) < Len(PageAsked(trace[j].page))
       /\ \A k \in DOMAIN trace[j].items : InWindow(cfg, trace[j].items[k])

(***************************************************************************)
(* C4.  A page fetch answered with an HTTP error status other than 429     *)
(* gets an entry in errors for its page, and the job does not end on it.   *)
(* The code does neither: see RESULTS.json.                                *)
(***************************************************************************)
C4_HttpErrorLoggedJobContinues ==
  \A i \in Positions("response") :
    (trace[i].kind = "http" /\ ~CancelledBefore(i)) =>
      /\ ErrorLogged(trace[i].page)
      /\ (cfg.mode = "page" /\ cfg.btMode = "all") => ~(pc = "done" /\ i = Len(trace))

(***************************************************************************)
(* C5.  A page fetch that fails without an HTTP response is logged for its *)
(* page and ends the job: no request follows it.  The code goes on to the  *)
(* next request unless the message happens to contain "Network error":     *)
(* see RESULTS.json.                                                       *)
(***************************************************************************)
C5_NetworkFailureStopsJob ==
  \A i \in Positions("response") :
    (trace[i].kind = "net" /\ ~CancelledBefore(i)) =>
      /\ ErrorLogged(trace[i].page)
      /\ \A j \in Positions("request") : j < i

(***************************************************************************)
(* C6.  A 429 is retried with the same request while fewer than            *)
(* maxRetries retries were made for the page, so a page gets at most       *)
(* maxRetries + 1 requests; the retry follows a backoff sleep, of at least *)
(* 2000 ms when the 429 carried Retry-After: 2.  When the first answer for *)
(* a page is such a 429 and the second is a success, the page has exactly  *)
(* two requests, is handed to the sink as served, and gets no error; with  *)
(* no other failure in the run errors stays empty.                         *)
(***************************************************************************)
RetryAfter2 == [t |-> "secs", v |-> 2]

FirstResponseFor(i) ==
  \A j \in Positions("response") : j < i => trace[j].page # trace[i].page

\* Position i holds a 429 with Retry-After: 2, the first answer for its page,
\* and the retry was answered with the page.
RetriedOnce(i) ==
  /\ trace[i].e = "response" /\ trace[i].kind = "r429" /\ trace[i].ra = RetryAfter2
  /\ FirstResponseFor(i)
  /\ i + 3 <= Len(trace)
  /\ trace[i + 3].e = "response" /\ trace[i + 3].kind = "ok"
  /\ ~CancelledBefore(i + 3)

C6_RetryOn429 ==
  /\ \A page \in 1..loc.pageNum :
       /\ Cardinality(RequestsFor(page)) <= maxRetriesOf(cfg) + 1
       /\ \A i, j \in RequestsFor(page) :
            trace[i].kind = trace[j].kind /\ trace[i].val = trace[j].val
  /\ \A i \in Positions("response") :
       (trace[i].kind = "r429" /\ i < Len(trace) /\ trace[i + 1].e = "sleep") =>
         /\ trace[i + 1].kind = "backoff"
         /\ trace[i].ra = RetryAfter2 => trace[i + 1].val >= 2000
         /\ i + 2 <= Len(trace) =>
              \/ trace[i + 2].e = "cancel"
              \/ trace[i + 2].e = "request" /\ trace[i + 2].page = trace[i].page
  /\ \A i \in DOMAIN trace :
       RetriedOnce(i) =>
         LET page == trace[i].page
             items == BatchOf(cfg, ServedPage(trace[i + 2]))
         IN /\ trace[i + 1].e = "sleep" /\ trace[i + 1].val >= 2000
            /\ trace[i + 2].e = "request"
            /\ Cardinality(RequestsFor(page)) = 2
            /\ Len(items) > 0 =>
                 /\ trace[i + 4].e = "send"
                 /\ trace[i + 4].page = page
                 /\ trace[i + 4].items = items
            /\ faults = MaxFaults - 1 => bulkTransport.errors = <<>>

C6_Witness ==
  /\ pc = "done"
  /\ faults = MaxFaults - 1
  /\ bulkTransport.errors = <<>>
  /\ \E i \in DOMAIN trace :
       RetriedOnce(i) /\ i + 4 <= Len(trace) /\ trace[i + 4].e = "send"

(***************************************************************************)
(* C7.  A batch the sink rejected, or whose delivery failed, gets an entry *)
(* in errors for its page and is not counted as sent.  The code counts a   *)
(* batch the spreadsheet receiver answered with {success: false}: see      *)
(* RESULTS.json.                                                           *)
(***************************************************************************)
C7_SinkFailureLoggedNotCounted ==
  \A i \in Positions("reply") :
    trace[i].kind \in {"rejected", "failed"} =>
      /\ ErrorLogged(trace[i].page)
      /\ ~\E k \in DOMAIN bulkTransport.log :
            /\ bulkTransport.log[k].page = trace[i].page
            /\ bulkTransport.log[k].status = "sent"

(***************************************************************************)
(* The enrichment workflow: the buttons of the modal and the awaits of     *)
(* startEnrichment.                                                        *)
(***************************************************************************)
EnrichBecomes(w) ==
  /\ enrichment' = w.en
  /\ eloc' = w.loc
  /\ epc' = w.pc
  /\ etrace' = w.trace

\* Lines 437-478: startEnrichment up to its first await.
startEnrichment(resumeFrom) ==
  /\ eruns > 0
  /\ eruns' = eruns - 1
  /\ enrichCancelRef' = FALSE
  /\ enrichPauseRef' = FALSE
  /\ LET w0 == [EnrichWorld EXCEPT
                  !.cancel = FALSE, !.pause = FALSE,
                  !.loc = [InitialEnrichLocals EXCEPT !.resumeFrom = resumeFrom],
                  !.trace = Append(@, EnrichEvent("start", resumeFrom, "run",
                                                  resumeFrom, <<>>))]
         en == [enrichment EXCEPT !.isRunning = TRUE, !.isPaused = FALSE,
                                  !.isCancelled = FALSE, !.batchSize = ecfg.batchSize,
                                  !.startedAt = "set", !.completedAt = "null"]
         fresh == [en EXCEPT !.errors = <<>>, !.log = <<>>, !.processedIds = 0,
                             !.currentBatch = 0, !.totalBatches = 0]
         w == [w0 EXCEPT !.en = IF resumeFrom = 0 THEN fresh ELSE en]
     IN IF ~ecfg.templateOk
          THEN EnrichBecomes([addEnrichLog(w0, 0, "Error parsing cURL template")
                                EXCEPT !.trace = Append(@, EnrichEvent("end", 0, "template",
                                                                       0, <<>>))])
        ELSE IF ecfg.switchboard THEN EnrichBecomes([w EXCEPT !.pc = "saveConfig"])
        ELSE EnrichBecomes(AfterSaveConfig(w))
  /\ UNCHANGED <<pvars, ovars, mvars, tvars, ecfg, efaults, epauses>>

\* Line 1485: the Start button of the form, shown when nothing runs, nothing
\* is complete and nothing can be resumed (line 1351).
StartEnrichment ==
  /\ ~enrichRunning /\ ~enrichComplete /\ ~enrichCanResume
  /\ startEnrichment(0)

\* Line 1525: the Resume button, shown when enrichCanResume (line 1500).
ResumeEnrichment ==
  /\ enrichCanResume
  /\ startEnrichment(enrichment.lastProcessedIndex)

\* Line 1531: the Start Over button next to Resume.
resetEnrichment ==
  /\ enrichCanResume
  /\ eruns > 0
  /\ enrichment' = InitialEnrichment
  /\ etrace' = Append(etrace, EnrichEvent("reset", 0, "store", 0, <<>>))
  /\ UNCHANGED <<pvars, ovars, mvars, tvars, ecfg, enrichCancelRef, enrichPauseRef, epc, eloc,
                 efaults, epauses, eruns>>

\* Lines 709-712.  The Cancel button is rendered while the job runs.
handleEnrichCancel ==
  /\ enrichment.isRunning
  /\ ~enrichCancelRef
  /\ enrichCancelRef' = TRUE
  /\ enrichment' = [enrichment EXCEPT !.isCancelled = TRUE]
  /\ etrace' = Append(etrace, EnrichEvent("cancel", eloc.i, epc, 0, <<>>))
  /\ UNCHANGED <<pvars, ovars, mvars, tvars, ecfg, enrichPauseRef, epc, eloc, efaults, epauses, eruns>>

\* Lines 704-707.  The Pause/Resume button is rendered while the job runs.
handleEnrichPause ==
  /\ enrichment.isRunning
  /\ enrichPauseRef \/ epauses > 0
  /\ enrichPauseRef' = ~enrichPauseRef
  /\ enrichment' = [enrichment EXCEPT !.isPaused = ~enrichPauseRef]
  /\ epauses' = IF enrichPauseRef THEN epauses ELSE epauses - 1
  /\ UNCHANGED <<pvars, ovars, mvars, tvars, ecfg, enrichCancelRef, epc, eloc, etrace, efaults, eruns>>

\* A run of startEnrichment's code between two awaits, ending in world w.
EnrichStep(at, w) ==
  /\ epc = at
  /\ EnrichBecomes(w)
  /\ UNCHANGED <<pvars, ovars, mvars, tvars, ecfg, enrichCancelRef, enrichPauseRef, epauses, eruns>>

\* Lines 476-478: the settings are saved.
EnrichSaveConfigDone ==
  EnrichStep("saveConfig", AfterSaveConfig(EnrichWorld)) /\ UNCHANGED efaults

\* The key source answers with a page of keys.
FetchIdsOk ==
  EnrichStep("fetchIds", FetchIdsReturn(EnrichWorld, "ok")) /\ UNCHANGED efaults

\* The key source answers {success: false}, or the call fails.
FetchIdsFault ==
  /\ efaults > 0
  /\ \E reply \in {"Sheet not found", "Failed to fetch"} :
       EnrichStep("fetchIds", FetchIdsReturn(EnrichWorld, reply))
  /\ efaults' = efaults - 1

\* Lines 527-529: sleep(500) of the pause loop is over and the loop's
\* condition no longer holds.
EnrichPauseWake ==
  /\ ~(enrichPauseRef /\ ~enrichCancelRef)
  /\ EnrichStep("pauseSleep", NextKey(EnrichWorld))
  /\ UNCHANGED efaults

\* Lines 540-542: the delay between two keys is over.
EnrichDelayDone ==
  EnrichStep("delaySleep", EnrichRetryTop(EnrichWorld)) /\ UNCHANGED efaults

\* Line 568: the wait after a 429 is over; `continue`.
EnrichBackoffDone ==
  EnrichStep("backoffSleep", EnrichRetryTop(EnrichWorld)) /\ UNCHANGED efaults

\* Line 575: the wait after a thrown call is over; `continue`.
EnrichErrorSleepDone ==
  EnrichStep("errorSleep", EnrichRetryTop(EnrichWorld)) /\ UNCHANGED efaults

\* The endpoint answers HTTP 200 for the key.
EnrichFetchOk ==
  /\ EnrichStep("fetching",
                EnrichFetchReturn(EnrichWorld,
                                  [k |-> "ok", ra |-> NoHeader, msg |-> NoMessage]))
  /\ UNCHANGED efaults

\* The endpoint answers with an error status, or not at all.
EnrichFetchFault ==
  /\ efaults > 0
  /\ \E o \in EnrichFetchOutcomes(ecfg) :
       /\ o.k # "ok"
       /\ EnrichStep("fetching", EnrichFetchReturn(EnrichWorld, o))
  /\ efaults' = efaults - 1

\* The sink takes a full batch.
BatchSendOk ==
  /\ \E r \in MergeReplies :
       /\ SinkVerdict(r) = "accepted"
       /\ EnrichStep("sendingBatch", BatchSendReturn(EnrichWorld, r))
  /\ UNCHANGED efaults

\* The sink rejects a full batch, or the call fails.
BatchSendFault ==
  /\ efaults > 0
  /\ \E r \in MergeReplies :
       /\ SinkVerdict(r) # "accepted"
       /\ EnrichStep("sendingBatch", BatchSendReturn(EnrichWorld, r))
  /\ efaults' = efaults - 1

\* The sink takes the final batch.
FinalSendOk ==
  /\ \E r \in MergeReplies :
       /\ SinkVerdict(r) = "accepted"
       /\ EnrichStep("sendingFinal", FinalSendReturn(EnrichWorld, r))
  /\ UNCHANGED efaults

\* The sink rejects the final batch, or the call fails.
FinalSendFault ==
  /\ efaults > 0
  /\ \E r \in MergeReplies :
       /\ SinkVerdict(r) # "accepted"
       /\ EnrichStep("sendingFinal", FinalSendReturn(EnrichWorld, r))
  /\ efaults' = efaults - 1

NextEnrich ==
  \/ StartEnrichment
  \/ ResumeEnrichment
  \/ resetEnrichment
  \/ handleEnrichCancel
  \/ handleEnrichPause
  \/ EnrichSaveConfigDone
  \/ FetchIdsOk
  \/ FetchIdsFault
  \/ EnrichPauseWake
  \/ EnrichDelayDone
  \/ EnrichBackoffDone
  \/ EnrichErrorSleepDone
  \/ EnrichFetchOk
  \/ EnrichFetchFault
  \/ BatchSendOk
  \/ BatchSendFault
  \/ FinalSendOk
  \/ FinalSendFault

\* The modal is open on the enrichment form; no transport job is started.
InitEnrich ==
  /\ TransportInit({ExampleConfig}, MaxFaults)
  /\ EnrichInit(Forms, Budgets)
  /\ ReceiverInit({SheetOf(<<>>, <<>>)})

SpecEnrich == InitEnrich /\ [][NextEnrich]_vars

(***************************************************************************)
(* Reading the enrichment trace.  The current run is what follows the last *)
(* "start" event; what holds of the current run in every state holds of    *)
(* every run.                                                              *)
(***************************************************************************)
EnrichPositions(kind) == {j \in DOMAIN etrace : etrace[j].e = kind}

RunStarts == EnrichPositions("start")

LastStart == CHOOSE s \in RunStarts : \A t \in RunStarts : t <= s

\* The events of the current run, the "start" event first.
Run == IF RunStarts = {} THEN <<>> ELSE SubSeq(etrace, LastStart, Len(etrace))

PositionsIn(run, kind) == {j \in DOMAIN run : run[j].e = kind}

\* The keys the key source holds for this form: the non-blank cells of the
\* column, the first maxIds of them under a Max IDs cap.
KeyListOf(c) ==
  LET all == SelectSeq(c.column, LAMBDA cell : cell # Blank)
  IN IF IsSome(c.maxIds) THEN SubSeq(all, 1, Min(Val(c.maxIds), Len(all))) ELSE all

\* The indices a run called, in the order of the calls.
CalledIndices(run) ==
  LET reqs == SelectSeq(run, LAMBDA ev : ev.e = "request")
  IN [j \in DOMAIN reqs |-> reqs[j].idx]

\* The answers of a run that make the retry loop call index i again.
RetriedAnswers(run, i) ==
  {j \in PositionsIn(run, "response") :
     run[j].idx = i /\ run[j].kind \in {"r429", "throw"}}

EndedUncancelled(run) ==
  \E j \in PositionsIn(run, "end") :
    run[j].kind \in {"DONE: Completed", "DONE: Completed with errors"}

\* The current run is startEnrichment(k), called after the run before it was
\* cancelled at index k.
ResumedAt(k) ==
  /\ RunStarts # {}
  /\ LET s == LastStart
     IN /\ s > 1
        /\ etrace[s - 1].e = "end"
        /\ etrace[s - 1].kind = "DONE: Cancelled"
        /\ etrace[s - 1].idx = k
        /\ etrace[s].val = k

\* The current run asks nothing of the key source, and calls the endpoint for
\* the keys of the list at the indices k, k+1, ... in this order; an index is
\* called again only after an answer that the retry loop retries; a run that
\* ends uncancelled has called every index up to the last.
ResumeContract(k) ==
  LET run == Run
      called == CalledIndices(run)
      keyList == KeyListOf(ecfg)
      n == Len(keyList)
  IN /\ PositionsIn(run, "getIds") = {}
     /\ epc \notin {"idle", "saveConfig"} =>
          eloc.idList = keyList /\ enrichment.idList = keyList
     /\ \A j \in PositionsIn(run, "request") : run[j].val = keyList[run[j].idx + 1]
     /\ \A j \in DOMAIN called :
          /\ called[j] \in k..(n - 1)
          /\ j = 1 => called[j] = k
          /\ j > 1 => called[j] \in {called[j - 1], called[j - 1] + 1}
     /\ \A i \in k..(n - 1) :
          /\ Cardinality({j \in DOMAIN called : called[j] = i})
               <= 1 + Cardinality(RetriedAnswers(run, i))
          /\ EndedUncancelled(run) => \E j \in DOMAIN called : called[j] = i

(***************************************************************************)
(* C8 as stated: after a run was cancelled at key index k, for every k at  *)
(* which a run can be cancelled, startEnrichment(k) makes no call to the   *)
(* key source, reuses the cached key list and calls the keys at the        *)
(* indices k..n-1 in order, each once.                                     *)
(***************************************************************************)
C8_ResumeAtEveryIndex ==
  \A k \in 0..MaxKeys : ResumedAt(k) => ResumeContract(k)

(***************************************************************************)
(* C8, amended: the same for every index k >= 1.  (A run cancelled at      *)
(* index 0 leaves lastProcessedIndex = 0: Resume is not offered, and        *)
(* startEnrichment(0) is a fresh start that asks the key source again.)    *)
(***************************************************************************)
C8_ResumeAtPositiveIndex ==
  \A k \in 1..MaxKeys : ResumedAt(k) => ResumeContract(k)

\* A run cancelled at index k >= 1 was resumed and ended uncancelled after
\* calling the key at index k and at least one more.
C8_Witness ==
  \E k \in 1..MaxKeys :
    /\ ResumedAt(k)
    /\ EndedUncancelled(Run)
    /\ \E j \in DOMAIN CalledIndices(Run) : CalledIndices(Run)[j] > k

RECURSIVE ConcatRows(_)
ConcatRows(ms) == IF ms = <<>> THEN <<>> ELSE Head(ms).rows \o ConcatRows(Tail(ms))

\* The indices of a run whose call was answered HTTP 200.
FetchedOk(run) ==
  {run[j].idx : j \in {h \in PositionsIn(run, "response") : run[h].kind = "ok"}}

Increasing(rows) == \A p \in DOMAIN rows : p > 1 => rows[p - 1].id < rows[p].id

(***************************************************************************)
(* C9: in a run that is not cancelled the rows handed to the sink, taken   *)
(* over all merge deliveries of the run, are in key order without          *)
(* repetition; every delivery but the last carries exactly batchSize rows  *)
(* and none carries more; only the last can be the final flush; the rows   *)
(* waiting in the batch are none of the delivered ones and fewer than      *)
(* batchSize; every key answered HTTP 200 has exactly one row, delivered   *)
(* or waiting, and once the run has ended it is a delivered one.           *)
(***************************************************************************)
C9_BatchedDelivery ==
  LET run == Run
  IN (run # <<>> /\ PositionsIn(run, "cancel") = {}) =>
       LET ms == SelectSeq(run, LAMBDA ev : ev.e = "merge")
           delivered == ConcatRows(ms)
           keyList == KeyListOf(ecfg)
           waiting == IF epc \in {"idle", "sendingBatch", "sendingFinal"}
                        THEN <<>> ELSE eloc.batch
           rows == delivered \o waiting
           fetchedOk == FetchedOk(run)
       IN /\ Increasing(rows)
          /\ \A m \in DOMAIN ms :
               /\ Len(ms[m].rows) \in 1..ecfg.batchSize
               /\ m < Len(ms) => Len(ms[m].rows) = ecfg.batchSize
               /\ ms[m].kind = "final" => m = Len(ms)
               /\ ms[m].val = m
          /\ Len(waiting) < ecfg.batchSize
          /\ \A i \in fetchedOk :
               \E p \in DOMAIN rows : rows[p].id = keyList[i + 1] /\ rows[p].status = 200
          /\ EndedUncancelled(run) =>
               \A i \in fetchedOk : \E p \in DOMAIN delivered : delivered[p].id = keyList[i + 1]

\* An uncancelled run has ended after a full batch and a final, shorter one.
C9_Witness ==
  LET run == Run
      ms == SelectSeq(run, LAMBDA ev : ev.e = "merge")
  IN /\ run # <<>>
     /\ PositionsIn(run, "cancel") = {}
     /\ EndedUncancelled(run)
     /\ Len(ms) >= 2
     /\ ms[Len(ms)].kind = "final"
     /\ Len(ms[Len(ms)].rows) < ecfg.batchSize
     /\ Len(ms[1].rows) = ecfg.batchSize

(***************************************************************************)
(* The receiver's web app: a POST with a merge envelope.                   *)
(***************************************************************************)
\* doPost (lines 28-40) and receiveData (lines 173-221) for an envelope
\* {sheetName, data, mode: "merge", keyColumn: "id"} naming the sheet; a
\* behaviour follows one envelope.
doPost ==
  /\ lastPost = NoPost
  /\ \E data \in Payloads :
       LET merged == mergeData(sheet, data, "id")
       IN /\ sheet' = merged.sheet
          /\ lastReply' = merged.reply
          /\ lastPost' = [before |-> sheet, data |-> data]
  /\ UNCHANGED <<pvars, ovars, tvars, evars>>

NextMerge == doPost

\* The modal is idle; the receiver holds some sheet.
InitMerge ==
  /\ TransportInit({ExampleConfig}, MaxFaults)
  /\ EnrichInit({DefaultForm}, {[faults |-> 0, pauses |-> 0, runs |-> 1]})
  /\ ReceiverInit(Sheets)

SpecMerge == InitMerge /\ [][NextMerge]_vars

\* String(value).trim(), the text the merge compares keys by.
TextOf(val) == trim(StringOf(val))

\* The sheet has a data row whose key cell holds the value.
HasKey(sh, val) ==
  /\ val # Undefined
  /\ \E i \in DOMAIN sh.rows : \E e \in DOMAIN sh.headers :
       trim(sh.headers[e]) = "id" /\ TextOf(sh.rows[i][e]) = TextOf(val)

(***************************************************************************)
(* C10: a merge adds no row; matched + notFound is the number of incoming  *)
(* objects; the objects counted matched are those whose key value is the   *)
(* key of an existing data row.                                            *)
(***************************************************************************)
C10_MergeCountsByKey ==
  /\ lastReply # NoReply => Len(sheet.rows) = Len(lastPost.before.rows)
  /\ lastReply.kind = "Merged" =>
       /\ lastReply.matched + lastReply.notFound = Len(lastPost.data)
       /\ lastReply.matched =
            Cardinality({m \in DOMAIN lastPost.data :
                           HasKey(lastPost.before, lastPost.data[m].id)})

(***************************************************************************)
(* The cURL panel's handlers.  A result is what executeRequest or          *)
(* browserFetch resolve with: every HTTP status comes with success true    *)
(* and the body in data; a failed call has success false and no data.      *)
(***************************************************************************)
EmptyBody == [kind |-> "empty", arrKey |-> "none", items |-> <<>>, fields |-> NoFields]

\* The answers of the APIs the panel is pointed at: `paging.next` absent, a
\* string, an empty string or an object, with any of a second URL field and
\* a token field; and an answer with `nextPageToken` alone.
PanelBodies ==
  {[kind |-> "object", arrKey |-> "data", items |-> <<1>>,
    fields |-> [NoFields EXCEPT !["paging.next"] = a, !["next"] = b,
                                !["meta.next_cursor"] = c]] :
     a \in {Absent, Str(2), [t |-> "empty", v |-> 0], [t |-> "obj", v |-> 0]},
     b \in {Absent, Str(3)}, c \in {Absent, Str(4)}}
  \cup {[kind |-> "object", arrKey |-> "data", items |-> <<1>>,
         fields |-> [NoFields EXCEPT !["nextPageToken"] = Str(5)]]}

PanelResults ==
  {[k |-> "ok", success |-> TRUE, status |-> 200, rateLimitInfo |-> FALSE,
    data |-> b] : b \in PanelBodies}
  \cup {[k |-> "ok", success |-> TRUE, status |-> 200, rateLimitInfo |-> FALSE,
         data |-> EmptyBody],
        [k |-> "r429", success |-> TRUE, status |-> 429, rateLimitInfo |-> FALSE,
         data |-> ErrorBody],
        [k |-> "http", success |-> TRUE, status |-> 500, rateLimitInfo |-> FALSE,
         data |-> ErrorBody],
        [k |-> "net", success |-> FALSE, status |-> 0, rateLimitInfo |-> FALSE,
         data |-> EmptyBody],
        [k |-> "throw", success |-> FALSE, status |-> 0, rateLimitInfo |-> FALSE,
         data |-> EmptyBody]}

\* The query parameters of the requests pasted into the panel.
ParamLists ==
  {<<>>, <<"q">>, <<"page", "per_page">>, <<"page", "cursor">>, <<"after", "p">>,
   <<"offset", "limit">>, <<"skip", "page">>, <<"limit">>}

\* Lines 43-117.
handleParse(paramKeys) ==
  /\ parsedRequest' = Some(paramKeys)
  /\ pagination' = inferPagination(pagination, paramKeys)
  /\ lastOp' = "parse"
  /\ UNCHANGED <<exec, apiResponse, ovars, tvars, evars, mvars>>

\* Lines 304-429: executeFetch up to its call of the API.  One executeFetch
\* is followed at a time.
executeFetch(pageOrDirection) ==
  /\ IsSome(parsedRequest)
  /\ exec.pc = "idle"
  /\ exec' = [exec EXCEPT !.pc = "fetching", !.pagination = pagination,
                          !.request = requestOf(pagination, pageOrDirection),
                          !.retryCount = 0, !.pageOrDirection = pageOrDirection,
                          !.executeError = FALSE, !.rateLimit.retryCount = 0]
  /\ pagination' = paginationAtCall(pagination, pageOrDirection)
  /\ UNCHANGED <<parsedRequest, apiResponse, lastOp, ovars, tvars, evars, mvars>>

\* Lines 119-121: the panel's Fetch button.
handleExecute == executeFetch(NoArgument)

\* Lines 431-528: the call returns.
ExecReturn(result) ==
  /\ exec.pc = "fetching"
  /\ IF result.k = "throw"
       THEN IF exec.retryCount < maxRetriesOf(cfg)
              THEN /\ exec' = [exec EXCEPT !.pc = "waiting", !.retryCount = @ + 1,
                                           !.rateLimit.retryCount = exec.retryCount + 1]
                   /\ UNCHANGED <<pagination, apiResponse, lastOp>>
              ELSE /\ exec' = [exec EXCEPT !.pc = "idle", !.pagination = InitialPagination,
                                           !.retryCount = 0, !.executeError = TRUE]
                   /\ lastOp' = "error"
                   /\ UNCHANGED <<pagination, apiResponse>>
     ELSE IF result.status = 429 /\ exec.retryCount < maxRetriesOf(cfg)
       THEN /\ exec' = [exec EXCEPT !.pc = "waiting", !.retryCount = @ + 1,
                                    !.rateLimit.retryCount = exec.retryCount + 1]
            /\ UNCHANGED <<pagination, apiResponse, lastOp>>
     ELSE /\ pagination' = refinePagination(pagination, exec.pagination, result,
                                            exec.pageOrDirection)
          /\ apiResponse' = Some(result)
          /\ lastOp' = "fetch"
          /\ exec' = [exec EXCEPT !.pc = "idle", !.pagination = InitialPagination,
                                  !.retryCount = 0,
                                  !.rateLimit.retryCount =
                                    IF result.rateLimitInfo THEN 0 ELSE @]
  /\ UNCHANGED <<parsedRequest, ovars, tvars, evars, mvars>>

\* Lines 446-449, 520-523: the wait before a retry is over.
ExecWaitDone ==
  /\ exec.pc = "waiting"
  /\ exec' = [exec EXCEPT !.pc = "fetching"]
  /\ UNCHANGED <<parsedRequest, pagination, apiResponse, lastOp, ovars, tvars, evars, mvars>>

\* The cURL panel alone: Parse and Fetch.
NextInfer ==
  \/ \E paramKeys \in ParamLists : handleParse(paramKeys)
  \/ handleExecute
  \/ \E result \in PanelResults : ExecReturn(result)
  \/ ExecWaitDone

\* The bulk job is idle; its settings matter for the retries only.
InferConfigs ==
  {c \in BaseConfigs : /\ c.itemCount = 1 /\ ~c.switchboard
                       /\ c.mode \in {"page", "cursor"} /\ c.cursorStyle = "url"}

InitInfer ==
  /\ TransportInit(InferConfigs, MaxFaults)
  /\ EnrichInit({DefaultForm}, {[faults |-> 0, pauses |-> 0, runs |-> 1]})
  /\ ReceiverInit({SheetOf(<<>>, <<>>)})

SpecInfer == InitInfer /\ [][NextInfer]_vars

(***************************************************************************)
(* C14.  After a parse the pagination is decided from the names of the     *)
(* request's query parameters in the order cursor name, page-number name   *)
(* (the offset names counted with them), size name alone, none: a cursor   *)
(* name gives mode cursor with cursorParamName that name, also next to a   *)
(* page name; else a page name gives mode page with pageParamName that     *)
(* name; else a size name gives mode cursor; else the mode is none.  The   *)
(* code leaves the record of the request parsed before when it finds no    *)
(* name: see RESULTS.json.                                                 *)
(***************************************************************************)
PageNameOf(paramKeys) ==
  IF IsSome(FindIn(paramKeys, PAGE_PARAM_NAMES)) THEN FindIn(paramKeys, PAGE_PARAM_NAMES)
  ELSE FindIn(paramKeys, OFFSET_PARAM_NAMES)

C14_InferenceOrder ==
  lastOp = "parse" =>
    LET paramKeys == Val(parsedRequest)
        cursorName == FindIn(paramKeys, CURSOR_PARAM_NAMES)
        pageName == PageNameOf(paramKeys)
        sizeName == FindIn(paramKeys, PER_PAGE_PARAM_NAMES)
    IN IF IsSome(cursorName)
         THEN pagination.mode = "cursor" /\ pagination.cursorParamName = cursorName
       ELSE IF IsSome(pageName)
         THEN pagination.mode = "page" /\ pagination.pageParamName = Val(pageName)
       ELSE IF IsSome(sizeName)
         THEN pagination.mode = "cursor"
       ELSE pagination.mode = "none"

(***************************************************************************)
(* C15.  When the body of a response carries `paging.next` as a non-empty  *)
(* string, the pagination refined from it has nextPageUrl that string and  *)
(* no nextCursor, whatever the body's other candidate fields and whatever  *)
(* the pagination was before; the bulk job, which refines in cursor mode,  *)
(* does the same with its own nextPageUrl and nextCursor.                  *)
(***************************************************************************)
HasPagingNext(data) == data.kind = "object" /\ data.fields["paging.next"].t = "str"

C15_PagingNextWins ==
  /\ (lastOp = "fetch" /\ HasPagingNext(Val(apiResponse).data)) =>
       /\ pagination.nextPageUrl = Some(Val(apiResponse).data.fields["paging.next"].v)
       /\ pagination.nextCursor = None
  /\ cfg.mode = "cursor" =>
       \A b \in PanelBodies :
         HasPagingNext(b) =>
           LET w == DetectNext([World EXCEPT !.loc.nextCursor = Some(9)],
                               [data |-> b], b.items)
           IN /\ w.loc.nextPageUrl = Some(b.fields["paging.next"].v)
              /\ w.loc.nextCursor = None

\* A response with `paging.next`, a second URL field and a token field has
\* arrived for a request that was parsed as offset-paginated.
C15_Witness ==
  /\ lastOp = "fetch"
  /\ HasPagingNext(Val(apiResponse).data)
  /\ Val(apiResponse).data.fields["next"].t = "str"
  /\ Val(apiResponse).data.fields["meta.next_cursor"].t = "str"
  /\ pagination.nextPageUrl = Some(2)
  /\ pagination.pageParamName = "offset"

(***************************************************************************)
(* Closing and reopening the modal.  App renders the modal while           *)
(* showBulkTransport holds, so closing unmounts it: a loop that is         *)
(* suspended at an await goes on with the refs of its mount, and the next  *)
(* mount has refs of its own.  The model follows one such loop; the        *)
(* settings entered again after the reset are those of cfg.                *)
(***************************************************************************)
Active(p) == p \notin {"idle", "done", "none"}

\* Lines 385-405, up to the timer; no enrichment is running.
handleClose ==
  /\ modal = "open"
  /\ opc = "none"
  /\ modal' = "closing"
  /\ IF bulkTransport.isRunning
       THEN /\ cancelRef' = TRUE
            /\ bulkTransport' = [bulkTransport EXCEPT !.isCancelled = TRUE]
       ELSE UNCHANGED <<cancelRef, bulkTransport>>
  /\ UNCHANGED <<opc, oloc, opause, cfg, pauseRef, pc, loc, trace, faults, pauses,
                 pvars, evars, mvars>>

\* Lines 394-404: the timer fires, after 500 ms when a job was running.  The
\* job state is reset and the modal unmounted, whether or not the loop has
\* ended.
CloseTimerFires ==
  /\ modal = "closing"
  /\ modal' = "closed"
  /\ bulkTransport' = InitialBulkTransport
  /\ IF Active(pc)
       THEN opc' = pc /\ oloc' = loc /\ opause' = pauseRef /\ UNCHANGED trace
       ELSE trace' = <<>> /\ UNCHANGED <<opc, oloc, opause>>
  /\ pc' = "idle"
  /\ loc' = InitialLocals
  /\ cancelRef' = FALSE
  /\ pauseRef' = FALSE
  /\ UNCHANGED <<cfg, faults, pauses, pvars, evars, mvars>>

\* part_003 line 47: the toolbar's button sets showBulkTransport, the modal
\* is mounted anew.
openModal ==
  /\ modal = "closed"
  /\ modal' = "open"
  /\ UNCHANGED <<opc, oloc, opause, tvars, pvars, evars, mvars>>

\* The loop of the earlier mount, as it is suspended: its cancelRef holds true.
OrphanWorld ==
  [bt |-> bulkTransport, loc |-> oloc, pc |-> opc, trace |-> trace,
   cancel |-> TRUE, pause |-> opause]

\* The loop of the earlier mount runs on from its await to the next one, or
\* to its end.
OrphanStep ==
  /\ Active(opc)
  /\ \E o \in FetchOutcomes(cfg), r \in SinkReplies(cfg) :
       LET w == CASE opc = "saveConfig" -> LoopTop(OrphanWorld)
                  [] opc = "pauseSleep" -> AfterPause(OrphanWorld)
                  [] opc \in {"delaySleep", "backoffSleep", "errorSleep"} ->
                       RetryTop(OrphanWorld)
                  [] opc = "fetching" -> FetchReturn(OrphanWorld, o)
                  [] opc = "sending" -> SendReturn(OrphanWorld, r)
       IN /\ bulkTransport' = w.bt
          /\ oloc' = w.loc
          /\ opc' = w.pc
          /\ trace' = w.trace
  /\ UNCHANGED <<modal, opause, cfg, cancelRef, pauseRef, pc, loc, faults, pauses,
                 pvars, evars, mvars>>

NextModal ==
  \/ Next
  \/ handleClose
  \/ CloseTimerFires
  \/ openModal
  \/ OrphanStep

\* A page-number source of one full page, in the runtime that saves the
\* settings first.
ModalConfigs ==
  {c \in BaseConfigs : c.itemCount = PageSize /\ c.switchboard /\ c.mode = "page"}

InitModal ==
  /\ TransportInit(ModalConfigs, 1)
  /\ EnrichInit({DefaultForm}, {[faults |-> 0, pauses |-> 0, runs |-> 1]})
  /\ ReceiverInit({SheetOf(<<>>, <<>>)})

SpecModal == InitModal /\ [][NextModal]_vars

(***************************************************************************)
(* C16.  At most one job loop is active at any time, and the job state is  *)
(* written by that loop only: while a loop runs, the state says isRunning. *)
(* This also holds after the modal was closed on a running job and a job   *)
(* was started again.  In the code the loop of the closed modal can still  *)
(* be suspended when the next job starts: see RESULTS.json.                *)
(***************************************************************************)
C16_OneLoopAtATime ==
  /\ ~(Active(pc) /\ Active(opc))
  /\ Active(pc) => bulkTransport.isRunning

(***************************************************************************)
(* C17.  A paused job makes no request to the source: no step in which     *)
(* pauseRef holds issues a request, wherever the job was suspended when    *)
(* Pause was clicked; and pausing makes the job neither skip nor repeat a  *)
(* page: when no call fails, the pages are asked for in their order.  The  *)
(* code looks at pauseRef at the top of the page loop only: see            *)
(* RESULTS.json.                                                           *)
(***************************************************************************)
PagesInOrder ==
  (cfg.mode = "page" /\ faults = MaxFaults) =>
    \A i \in DOMAIN RequestedPages : RequestedPages[i] = i

C17_NoRequestWhilePaused ==
  /\ [][\A i \in (Len(trace) + 1)..Len(trace') :
          trace'[i].e = "request" => ~pauseRef]_vars
  /\ []PagesInOrder

(***************************************************************************)
(* C18.  In an enrichment run that is not cancelled, a key whose fetch is  *)
(* answered with HTTP 404 adds no row to the batch and no entry to the     *)
(* errors, is logged as a skip and counted as processed; a key whose fetch *)
(* fails in another way (an error status, a 429 after the last retry, a    *)
(* call that fails or throws) adds an entry to the errors and no row, is   *)
(* counted as processed, and the job goes on to the next key.  In the      *)
(* code every HTTP answer is a success: see RESULTS.json.                  *)
(***************************************************************************)
\* The step takes the final answer to the fetch of a key.
KeyAnswered ==
  /\ epc = "fetching"
  /\ ~enrichCancelRef
  /\ Len(etrace') > Len(etrace)
  /\ etrace'[Len(etrace) + 1].e = "response"
  /\ epc' \notin {"backoffSleep", "errorSleep"}

C18_FailedKeys ==
  [][(KeyAnswered /\ etrace'[Len(etrace) + 1].kind # "ok") =>
       /\ eloc'.batch = eloc.batch
       /\ eloc'.processedCount = eloc.processedCount + 1
       /\ eloc'.i = eloc.i + 1
       /\ IF etrace'[Len(etrace) + 1].kind = "h404"
            THEN /\ eloc'.errors = eloc.errors
                 /\ enrichment'.errors = enrichment.errors
                 /\ \E n \in DOMAIN enrichment'.log :
                      /\ n > Len(enrichment.log)
                      /\ enrichment'.log[n].status = "404 - no data (skipped)"
            ELSE /\ Len(eloc'.errors) = Len(eloc.errors) + 1
                 /\ enrichment'.errors = eloc'.errors]_vars

(***************************************************************************)
(* Key acquisition alone: a fresh start up to the first per-key fetch.     *)
(* A call to the key source that is in flight returns.                     *)
(***************************************************************************)
NextKeys ==
  \/ StartEnrichment
  \/ EnrichSaveConfigDone
  \/ FetchIdsOk
  \/ FetchIdsFault
  \/ handleEnrichCancel

\* The forms of the enrichment runs, and two whose key column is longer than
\* a page of keys: without a cap, and with a cap reached on the second page.
KeyForms ==
  Forms
  \cup {Form(WithBlank(IdPageLimit, 2), DefaultBatchSize, m, FALSE, TRUE) :
          m \in {None, Some(IdPageLimit)}}

InitKeys ==
  /\ TransportInit({ExampleConfig}, MaxFaults)
  /\ EnrichInit(KeyForms, {[faults |-> f, pauses |-> 0, runs |-> 1] :
                             f \in 0..MaxEnrichFaults})
  /\ ReceiverInit({SheetOf(<<>>, <<>>)})

SpecKeys == InitKeys /\ [][NextKeys]_vars /\ WF_vars(FetchIdsOk)

EnrichEvents(kind) == SelectSeq(etrace, LAMBDA ev : ev.e = kind)

NonBlank(column) == SelectSeq(column, LAMBDA cell : cell # Blank)

\* The keys a fresh start is to work on.
ExpectedKeys(f) ==
  IF IsSome(f.maxIds)
    THEN SubSeq(NonBlank(f.column), 1, Min(Val(f.maxIds), Len(NonBlank(f.column))))
    ELSE NonBlank(f.column)

\* The number of keys in the first n pages received.
RECURSIVE KeysIn(_, _)
KeysIn(pages, n) == IF n = 0 THEN 0 ELSE KeysIn(pages, n - 1) + Len(pages[n].rows)

(***************************************************************************)
(* C19.  On a fresh start the keys are asked of the sheet in pages of at   *)
(* most 500 rows: the first page starts at row 0, each further page at the *)
(* nextStart of the page before, which had hasMore true; no page is asked  *)
(* for once the cap is reached.  The list in the store when the first      *)
(* per-key fetch goes out is the column's non-blank keys, each once, in    *)
(* sheet order, cut at the cap.  The acquisition comes to an end.          *)
(***************************************************************************)
KeyPagesFollow ==
  LET gets == EnrichEvents("getIds")
      pages == EnrichEvents("ids")
      total == Len(ecfg.column)
  IN /\ Len(pages) <= Len(gets)
     /\ \A g \in DOMAIN gets :
          /\ gets[g].val \in 1..IdPageLimit
          /\ Len(pages) >= g - 1
          /\ IsSome(ecfg.maxIds) => KeysIn(pages, g - 1) < Val(ecfg.maxIds)
          /\ IF g = 1 THEN gets[g].idx = 0
             ELSE /\ gets[g].idx = gets[g - 1].idx + Min(gets[g - 1].val, total - gets[g - 1].idx)
                  /\ gets[g].idx < total

KeyListCached ==
  (epc = "fetching" \/ EnrichEvents("request") # <<>> \/ enrichment.idList # <<>>) =>
    /\ enrichment.idList = ExpectedKeys(ecfg)
    /\ eloc.idList = ExpectedKeys(ecfg)
    /\ enrichment.totalIds = Len(ExpectedKeys(ecfg))
    /\ IsSome(ecfg.maxIds) => Len(enrichment.idList) <= Val(ecfg.maxIds)

C19_KeyAcquisition ==
  /\ [](KeyPagesFollow /\ KeyListCached)
  /\ (epc = "fetchIds") ~> (epc # "fetchIds")

\* The first per-key fetch is out for a column that took two pages of keys,
\* the first of them short of the 500 asked for because of a blank cell.
C19_Witness ==
  /\ epc = "fetching"
  /\ Len(EnrichEvents("getIds")) = 2
  /\ EnrichEvents("getIds")[1].val = IdPageLimit
  /\ Len(EnrichEvents("ids")[1].rows) = IdPageLimit - 1
  /\ Len(enrichment.idList) = IdPageLimit

(***************************************************************************)
(* Bulk runs on a request that handleParse found offset-paginated.  The    *)
(* request's kind names the parameter its value is sent in: "offset" for   *)
(* a pageParamName out of OFFSET_PARAM_NAMES.                              *)
(***************************************************************************)
OffsetPagination == inferPagination(InitialPagination, <<"offset", "limit">>)

OffsetConfigs ==
  {[c EXCEPT !.mode = OffsetPagination.mode,
             !.pageParamName = OffsetPagination.pageParamName] :
     c \in {b \in BaseConfigs : b.mode = "page"}}

InitOffset ==
  /\ TransportInit(OffsetConfigs, MaxFaults)
  /\ EnrichInit({DefaultForm}, {[faults |-> 0, pauses |-> 0, runs |-> 1]})
  /\ ReceiverInit({SheetOf(<<>>, <<>>)})

SpecOffset == InitOffset /\ [][Next]_vars

RECURSIVE Concat(_, _)
Concat(seqs, n) == IF n = 0 THEN <<>> ELSE Concat(seqs, n - 1) \o seqs[n]

(***************************************************************************)
(* C20.  In a bulk run on an offset-paginated request in which nothing     *)
(* fails and nobody cancels, the value sent in the offset parameter for    *)
(* the k-th page is (k-1)*perPage, and the exhaustive run hands every item *)
(* of the source to the sink exactly once, in order.  The code sends the   *)
(* page number: see RESULTS.json.                                          *)
(***************************************************************************)
C20_OffsetMath ==
  (cfg.pageParamName \in OFFSET_PARAM_NAMES /\ cfg.btMode = "all" /\ UndisturbedRun) =>
    /\ \A k \in DOMAIN Events("request") :
         /\ Events("request")[k].kind = "offset"
         /\ Events("request")[k].val = (k - 1) * cfg.perPage
    /\ pc = "done" =>
         Concat(Deliveries, Len(Deliveries)) = [i \in 1..cfg.itemCount |-> i]

(***************************************************************************)
(* The response view (ResponseViewer) with its pagination bar, and the     *)
(* header's Reset All button, over the simulated source: the response to   *)
(* a request is the page the source serves for it.                         *)
(***************************************************************************)
\* ResponseViewer lines 14, 31, 44 and 191: the pagination bar is rendered.
PagerShown ==
  /\ ~exec.executeError
  /\ IsSome(apiResponse)
  /\ Val(apiResponse).success
  /\ pagination.hasDetected

isCursorMode == pagination.mode = "cursor"

\* ResponseViewer lines 47-61: the items counted in the response shown.
itemCountOf(data) == extractDataArray(data)

\* ResponseViewer lines 111-114.
hasNextPage ==
  IF isCursorMode THEN IsSome(pagination.nextPageUrl) \/ IsSome(pagination.nextCursor)
  ELSE IF IsSome(itemCountOf(Val(apiResponse).data))
         THEN Len(Val(itemCountOf(Val(apiResponse).data))) >= cfg.perPage
         ELSE TRUE

\* ResponseViewer lines 116-119.
hasPrevPage ==
  IF isCursorMode THEN Len(pagination.prevCursors) > 0 ELSE pagination.currentPage > 1

\* The highest page number the view is taken to.
MaxPageNo == 3

\* ResponseViewer lines 71-79 and 226.
goToNext ==
  /\ PagerShown /\ hasNextPage
  /\ pagination.currentPage < MaxPageNo
  /\ executeFetch(IF isCursorMode THEN Direction("next")
                  ELSE PageNumber(pagination.currentPage + 1))

\* ResponseViewer lines 81-89 and 198.
goToPrev ==
  /\ PagerShown /\ hasPrevPage
  /\ executeFetch(IF isCursorMode THEN Direction("prev")
                  ELSE PageNumber(pagination.currentPage - 1))

\* ResponseViewer lines 97-109, up to the timer; the buttons are disabled
\* while isExecuting.
handlePerPageChange ==
  /\ PagerShown
  /\ exec.pc = "idle"
  /\ pagination' = [pagination EXCEPT !.currentPage = 1, !.nextCursor = None,
                                      !.nextPageUrl = None, !.prevCursors = <<>>]
  /\ exec' = [exec EXCEPT !.refetch = IF isCursorMode THEN "cursor" ELSE "page"]
  /\ UNCHANGED <<parsedRequest, apiResponse, lastOp, ovars, tvars, evars, mvars>>

\* ResponseViewer lines 101-107: the timer fires after 50 ms.  executeFetch
\* returns at once when no request is parsed.
RefetchTimerFires ==
  /\ exec.refetch # "none"
  /\ exec.pc = "idle"
  /\ IF IsSome(parsedRequest)
       THEN LET pageOrDirection == IF exec.refetch = "cursor" THEN NoArgument
                                   ELSE PageNumber(1)
            IN /\ exec' = [exec EXCEPT !.pc = "fetching", !.pagination = pagination,
                                       !.request = requestOf(pagination, pageOrDirection),
                                       !.retryCount = 0,
                                       !.pageOrDirection = pageOrDirection,
                                       !.executeError = FALSE, !.refetch = "none",
                                       !.rateLimit.retryCount = 0]
               /\ pagination' = paginationAtCall(pagination, pageOrDirection)
       ELSE /\ exec' = [exec EXCEPT !.refetch = "none"]
            /\ UNCHANGED pagination
  /\ UNCHANGED <<parsedRequest, apiResponse, lastOp, ovars, tvars, evars, mvars>>

\* part_001 lines 145-164, Header.jsx line 33.  A call in flight goes on.
resetAll ==
  /\ parsedRequest' = None
  /\ apiResponse' = None
  /\ pagination' = InitialPagination
  /\ exec' = [exec EXCEPT !.executeError = FALSE, !.rateLimit.retryCount = 0]
  /\ lastOp' = "reset"
  /\ UNCHANGED <<ovars, tvars, evars, mvars>>

\* What the source, or the network, answers to a request.
SourceResults(req) ==
  {[k |-> "ok", success |-> TRUE, status |-> 200, rateLimitInfo |-> FALSE,
    data |-> PageBody(cfg, req)],
   [k |-> "r429", success |-> TRUE, status |-> 429, rateLimitInfo |-> FALSE,
    data |-> ErrorBody],
   [k |-> "net", success |-> FALSE, status |-> 0, rateLimitInfo |-> FALSE,
    data |-> EmptyBody]}

\* The requests parsed: a size name alone, a cursor name, a page name.
NavParamLists == {<<"limit">>, <<"cursor", "limit">>, <<"page", "per_page">>}

NextNav ==
  \/ \E paramKeys \in NavParamLists : handleParse(paramKeys)
  \/ handleExecute
  \/ goToNext
  \/ goToPrev
  \/ handlePerPageChange
  \/ RefetchTimerFires
  \/ resetAll
  \/ \E result \in SourceResults(exec.request) : ExecReturn(result)
  \/ ExecWaitDone

\* Sources of three pages, of every pagination style.
NavConfigs ==
  {[c EXCEPT !.itemCount = 2 * PageSize + 1] :
     c \in {b \in BaseConfigs : b.itemCount = 0 /\ ~b.switchboard /\ b.mode # "none"}}

InitNav ==
  /\ TransportInit(NavConfigs, MaxFaults)
  /\ EnrichInit({DefaultForm}, {[faults |-> 0, pauses |-> 0, runs |-> 1]})
  /\ ReceiverInit({SheetOf(<<>>, <<>>)})

SpecNav == InitNav /\ [][NextNav]_vars

\* The page of the source that the response view shows.
ShownPage == ((Val(apiResponse).data.items[1] - 1) \div cfg.perPage) + 1

\* Next has brought a page of the source into the view, and nothing was done
\* since.
AfterNext ==
  /\ lastOp = "fetch"
  /\ exec.pc = "idle"
  /\ exec.pageOrDirection.t = "next"
  /\ Val(apiResponse).status = 200
  /\ Val(apiResponse).data.items # <<>>

(***************************************************************************)
(* C21.  In cursor mode Prev takes the last entry off prevCursors and      *)
(* fetches with it, a URL as the whole URL and a token as the cursor       *)
(* parameter; with no entry it fetches the first page.  After a Next that  *)
(* brought page p into the view, the request of Prev is the one for page   *)
(* p - 1, the page shown before.  (The entry Next pushes at lines 460-464  *)
(* is built from the locator captured at the call, the one of page p.)     *)
(***************************************************************************)
PrevCalled ==
  /\ pagination.mode = "cursor"
  /\ exec.pc = "idle"
  /\ exec'.pc = "fetching"
  /\ exec'.pageOrDirection.t = "prev"

PrevPopsEntry ==
  IF pagination.prevCursors = <<>>
    THEN exec'.request.kind = "first" /\ pagination'.prevCursors = <<>>
    ELSE LET prevEntry == pagination.prevCursors[Len(pagination.prevCursors)]
         IN /\ exec'.request = [kind |-> IF prevEntry.k = "url" THEN "url" ELSE "token",
                                val |-> prevEntry.v]
            /\ pagination'.prevCursors =
                 SubSeq(pagination.prevCursors, 1, Len(pagination.prevCursors) - 1)

C21_PrevRoundTrip ==
  [][PrevCalled =>
       /\ PrevPopsEntry
       /\ AfterNext => ServedPage(exec'.request) = ShownPage - 1]_vars


(***************************************************************************)
(* C22: when a run cancelled at index k has been resumed and the resumed   *)
(* run has ended uncancelled, every key that was answered HTTP 200, in the *)
(* cancelled run or in the resumed one, has its row in some merge          *)
(* delivery: the rows waiting in a batch that was not yet full at the      *)
(* cancellation are not lost, and no key counted as processed is left      *)
(* undelivered.                                                            *)
(***************************************************************************)
DeliveredKeys ==
  UNION {{etrace[j].rows[p].id : p \in DOMAIN etrace[j].rows} : j \in EnrichPositions("merge")}

C22_ResumeLosesNoRow ==
  \A k \in 1..MaxKeys :
    (ResumedAt(k) /\ EndedUncancelled(Run)) =>
      \A j \in EnrichPositions("response") :
        etrace[j].kind = "ok" => KeyListOf(ecfg)[etrace[j].idx + 1] \in DeliveredKeys


(***************************************************************************)
(* C23: in a date range run over a page-number API that has ended without  *)
(* a cancel, every page the server answered in full (perPage items) on     *)
(* which the early stop does not apply (some item passed the filter, or no *)
(* item lies before `from`) is followed by a request for the next page:    *)
(* the end-of-data test counts the items the page returned, not the items  *)
(* that passed the filter.                                                 *)
(***************************************************************************)
EarlyStopApplies(c, items) ==
  /\ c.dateFrom # ""
  /\ \A k \in DOMAIN items : ~KeepsItem(c, items[k])
  /\ \E k \in DOMAIN items :
       /\ IsSome(Instant(c, items[k]))
       /\ Val(Instant(c, items[k])) < Val(ParseDate(DateStr(c.dateFrom)))

C23_FullPageGoesOn ==
  (/\ pc = "done" /\ ~cancelRef
   /\ cfg.mode = "page" /\ DateFiltering(cfg)) =>
    \A i \in Positions("response") :
      (/\ trace[i].kind = "ok"
       /\ Len(PageAsked(trace[i].page)) = cfg.perPage
       /\ ~EarlyStopApplies(cfg, PageAsked(trace[i].page)))
        => RequestsFor(trace[i].page + 1) # {}


(***************************************************************************)
(* C29: a date range run stops early on a page ("all items outside date    *)
(* range - stopping": nothing delivered for the page, no further fetch)    *)
(* only if `from` is set, every item of the page was filtered out, the     *)
(* source returns its items newest first, and some item of the page lies   *)
(* before `from`.                                                          *)
(***************************************************************************)
NewestFirst(c) ==
  \A i, j \in 1..c.itemCount :
    (i < j /\ IsSome(Instant(c, i)) /\ IsSome(Instant(c, j)))
      => Val(Instant(c, i)) >= Val(Instant(c, j))

EarlyStops ==
  {k \in DOMAIN bulkTransport.log :
     bulkTransport.log[k].status = "all items outside date range - stopping"}

C29_EarlyStopOnlyNewestFirst ==
  \A k \in EarlyStops :
    /\ EarlyStopApplies(cfg, PageAsked(bulkTransport.log[k].page))
    /\ NewestFirst(cfg)
    /\ pc = "done" /\ RequestsFor(bulkTransport.log[k].page + 1) = {}
    /\ \A j \in Positions("send") : trace[j].page # bulkTransport.log[k].page


(***************************************************************************)
(* C24: a page fetch that fails without an HTTP response while fewer than  *)
(* maxRetries retries were made for the page is followed by a sleep of     *)
(* 2000 * attempt ms and a new request for the same page; the failure      *)
(* reaches the job as a result only once the budget is used up.            *)
(***************************************************************************)
RequestsBefore(i) == {j \in RequestsFor(trace[i].page) : j < i}

C24_NetworkFailureRetried ==
  \A i \in Positions("response") :
    (/\ trace[i].kind \in {"net", "throw"}
     /\ ~cancelRef
     /\ Cardinality(RequestsBefore(i)) <= maxRetriesOf(cfg))
      => /\ i < Len(trace)
         /\ trace[i + 1].e = "sleep"
         /\ trace[i + 1].val = 2000 * Cardinality(RequestsBefore(i))
         /\ ~ErrorLogged(trace[i].page)


(***************************************************************************)
(* C25: a 429 answered while fewer than maxRetries retries were made for   *)
(* the page leaves no entry in errors for the page and is followed by a    *)
(* backoff sleep; a 429 answered after maxRetries retries gets an entry in *)
(* errors for its page (retry on 429 being switched on).                   *)
(***************************************************************************)
C25_Exhausted429Logged ==
  \A i \in Positions("response") :
    (trace[i].kind = "r429" /\ ~cancelRef /\ cfg.retryOn429) =>
      IF Cardinality(RequestsBefore(i)) <= maxRetriesOf(cfg)
        THEN /\ i < Len(trace) /\ trace[i + 1].e = "sleep"
             /\ (i = Len(trace) - 1) => ~ErrorLogged(trace[i].page)
        ELSE ErrorLogged(trace[i].page)


(***************************************************************************)
(* The waits of the retry loop on 429 answers, read from the trace: a      *)
(* "backoff" sleep follows the 429 it answers, and the retries consumed    *)
(* for the page at that point are the requests made for it so far.         *)
(***************************************************************************)
Backoffs == {i \in Positions("sleep") : trace[i].kind = "backoff"}

RetryAfterOf(i) == trace[i - 1].ra

ConsumedRetries(i) == Cardinality(RequestsBefore(i))

\* The wait is the header's seconds times 1000, or the capped exponential
\* backoff when there is no header; the retries stay within the budget.
WaitAsComputed(i) ==
  /\ trace[i - 1].e = "response" /\ trace[i - 1].kind = "r429"
  /\ ConsumedRetries(i) \in 1..maxRetriesOf(cfg)
  /\ RetryAfterOf(i).t = "secs" => trace[i].val = RetryAfterOf(i).v * 1000
  /\ RetryAfterOf(i).t = "absent" =>
       trace[i].val = Min(2000 * Pow2(ConsumedRetries(i) - 1), 30000)

(***************************************************************************)
(* C30 as stated: every wait on a 429 is computed so, no wait exceeds      *)
(* 30000 ms, the waits of one page never decrease from one retry to the    *)
(* next, and the retry counter never exceeds the budget.                   *)
(***************************************************************************)
C30_BackoffBounded ==
  /\ loc.retries <= maxRetriesOf(cfg)
  /\ \A i \in Backoffs :
       /\ WaitAsComputed(i)
       /\ trace[i].val <= 30000
       /\ \A j \in Backoffs :
            (j < i /\ trace[j].page = trace[i].page) => trace[j].val <= trace[i].val

(***************************************************************************)
(* C30, amended: every wait on a 429 is computed so, and the retry counter *)
(* never exceeds the budget; the waits taken without a Retry-After header  *)
(* never exceed 30000 ms and never decrease from one such retry of a page  *)
(* to the next.  (A wait taken from Retry-After is not capped; a header    *)
(* that is not a number gives a wait of 2000 * consumedRetries ms.)        *)
(***************************************************************************)
C30_BackoffBoundedWithoutHeader ==
  /\ loc.retries <= maxRetriesOf(cfg)
  /\ \A i \in Backoffs :
       /\ WaitAsComputed(i)
       /\ RetryAfterOf(i).t = "nan" => trace[i].val = 2000 * ConsumedRetries(i)
       /\ RetryAfterOf(i).t = "absent" =>
            /\ trace[i].val <= 30000
            /\ \A j \in Backoffs :
                 (j < i /\ trace[j].page = trace[i].page /\ RetryAfterOf(j).t = "absent")
                   => trace[j].val <= trace[i].val

\* A page was retried twice on 429: once after the wait of a Retry-After
\* header, once after the second step of the exponential backoff.
C30_Witness ==
  \E i, j \in Backoffs :
    /\ j < i /\ trace[j].page = trace[i].page
    /\ RetryAfterOf(j).t = "secs" /\ trace[j].val = 60000
    /\ RetryAfterOf(i).t = "absent" /\ trace[i].val = 4000


(***************************************************************************)
(* Cursor detection over answers that carry several candidate fields.      *)
(***************************************************************************)
\* Answers with any of `paging.next` (a URL or an object), `next_cursor` (a
\* token or an empty string), `has_more` (true or false) and `nextPageToken`,
\* over a `data` array whose last item has an id or none, and over an
\* `items` array.
DetectBodies ==
  {[kind |-> "object", arrKey |-> arr[1], items |-> arr[2],
    fields |-> [NoFields EXCEPT !["paging.next"] = a, !["next_cursor"] = b,
                                !["has_more"] = h, !["nextPageToken"] = t]] :
     a \in {Absent, Str(2), [t |-> "obj", v |-> 0]},
     b \in {Absent, Str(3), [t |-> "empty", v |-> 0]},
     h \in {Absent, [t |-> "true", v |-> 0], [t |-> "false", v |-> 0]},
     t \in {Absent, Str(5)},
     arr \in {<<"data", <<1>>>>, <<"data", <<0>>>>, <<"items", <<1>>>>}}

DetectResults ==
  {[k |-> "ok", success |-> TRUE, status |-> 200, rateLimitInfo |-> FALSE,
    data |-> b] : b \in DetectBodies}
  \cup {[k |-> "throw", success |-> FALSE, status |-> 0, rateLimitInfo |-> FALSE,
         data |-> EmptyBody]}

\* The panel pointed at such APIs.
NextDetect ==
  \/ handleParse(<<"limit">>)
  \/ handleExecute
  \/ \E result \in DetectResults : ExecReturn(result)
  \/ ExecWaitDone

InitDetect ==
  /\ TransportInit({c \in InferConfigs : c.mode = "cursor"}, MaxFaults)
  /\ EnrichInit({DefaultForm}, {[faults |-> 0, pauses |-> 0, runs |-> 1]})
  /\ ReceiverInit({SheetOf(<<>>, <<>>)})

SpecDetect == InitDetect /\ [][NextDetect]_vars

\* What pattern number i yields for an answer: for `has_more` the id of the
\* last item of `data` when the flag is true and the id exists, for every
\* other pattern the non-empty string found at its path.
YieldOf(data, i) ==
  LET pattern == CURSOR_RESPONSE_PATHS[i]
      value == data.fields[pattern.path]
  IN IF pattern.path = "has_more"
       THEN IF /\ value.t = "true" /\ data.arrKey = "data" /\ data.items # <<>>
               /\ data.items[Len(data.items)] # 0
              THEN Some(data.items[Len(data.items)]) ELSE None
       ELSE IF value.t = "str" THEN Some(value.v) ELSE None

Yielding(data) == {i \in DOMAIN CURSOR_RESPONSE_PATHS : IsSome(YieldOf(data, i))}

\* The first yielding pattern in list order, null when there is none.
FirstYield(data) ==
  IF Yielding(data) = {} THEN NoCursor
  ELSE LET i == CHOOSE m \in Yielding(data) : \A n \in Yielding(data) : m <= n
       IN [found |-> TRUE, value |-> Val(YieldOf(data, i)),
           isUrl |-> CURSOR_RESPONSE_PATHS[i].urlField,
           path |-> CURSOR_RESPONSE_PATHS[i].path]

(***************************************************************************)
(* C28: cursor detection returns what the first pattern in list order      *)
(* that yields a value yields, `has_more` yielding the last item's id only *)
(* when it is true and the id exists, and null exactly when no pattern     *)
(* yields; the pagination after a fetch holds that result.                 *)
(***************************************************************************)
C28_FirstPatternWins ==
  /\ \A b \in DetectBodies :
       /\ detectCursorFromResponse(b) = FirstYield(b)
       /\ detectCursorFromResponse(b).found <=> Yielding(b) # {}
  /\ lastOp = "fetch" =>
       LET cursorInfo == FirstYield(Val(apiResponse).data)
       IN /\ pagination.nextPageUrl =
               IF cursorInfo.found /\ cursorInfo.isUrl THEN Some(cursorInfo.value) ELSE None
          /\ pagination.nextCursor =
               IF cursorInfo.found /\ ~cursorInfo.isUrl THEN Some(cursorInfo.value) ELSE None

\* An answer whose `paging.next` is an object and whose `next_cursor` is
\* empty, with `has_more` true and a `nextPageToken`, has arrived: the last
\* item's id is the token.
C28_Witness ==
  /\ lastOp = "fetch"
  /\ Val(apiResponse).data.fields["paging.next"].t = "obj"
  /\ Val(apiResponse).data.fields["next_cursor"].t = "empty"
  /\ Val(apiResponse).data.fields["has_more"].t = "true"
  /\ Val(apiResponse).data.fields["nextPageToken"].t = "str"
  /\ pagination.nextCursor = Some(1)
  /\ pagination.mode = "cursor"


(***************************************************************************)
(* The pager over an API whose answers do not always carry the same        *)
(* cursor field: besides the pages of the source, an answer with a         *)
(* `nextPageToken` alone and an answer with both a next URL and a token.   *)
(***************************************************************************)
ForeignResults ==
  {[k |-> "ok", success |-> TRUE, status |-> 200, rateLimitInfo |-> FALSE,
    data |-> b] :
     b \in {[kind |-> "object", arrKey |-> "data", items |-> <<1>>,
             fields |-> [NoFields EXCEPT !["nextPageToken"] = Str(2)]],
            [kind |-> "object", arrKey |-> "data", items |-> <<1>>,
             fields |-> [NoFields EXCEPT !["paging.next"] = Str(2),
                                         !["meta.next_cursor"] = Str(3)]]}}

NextPager ==
  \/ \E paramKeys \in NavParamLists : handleParse(paramKeys)
  \/ handleExecute
  \/ goToNext
  \/ goToPrev
  \/ handlePerPageChange
  \/ RefetchTimerFires
  \/ resetAll
  \/ \E result \in SourceResults(exec.request) \cup ForeignResults : ExecReturn(result)
  \/ ExecWaitDone

\* A source paged by token and one paged by number.
PagerConfigs ==
  {c \in NavConfigs : c.mode = "page" \/ (c.cursorStyle = "token" /\ IsSome(c.cursorParamName))}

InitPager ==
  /\ TransportInit(PagerConfigs, MaxFaults)
  /\ EnrichInit({DefaultForm}, {[faults |-> 0, pauses |-> 0, runs |-> 1]})
  /\ ReceiverInit({SheetOf(<<>>, <<>>)})

SpecPager == InitPager /\ [][NextPager]_vars

AtMostOne(a, b) == ~(IsSome(a) /\ IsSome(b))

(***************************************************************************)
(* C27: the pagination record never holds both a next token and a next    *)
(* URL, whatever was fetched, paged, resized or reset, and holds neither   *)
(* while its mode is "none"; the same holds of the record a call of        *)
(* executeFetch has captured, and of the bulk job's local nextCursor and   *)
(* nextPageUrl after the next-page detection on any answer.                *)
(***************************************************************************)
C27_OneNextSignal ==
  /\ AtMostOne(pagination.nextCursor, pagination.nextPageUrl)
  /\ AtMostOne(exec.pagination.nextCursor, exec.pagination.nextPageUrl)
  /\ pagination.mode = "none" =>
       pagination.nextCursor = None /\ pagination.nextPageUrl = None
  /\ AtMostOne(loc.nextCursor, loc.nextPageUrl)
  /\ \A b \in {r.data : r \in ForeignResults} \cup {ErrorBody},
        held \in {<<None, None>>, <<Some(9), None>>, <<None, Some(9)>>} :
       LET w == DetectNext([World EXCEPT !.loc.nextCursor = held[1],
                                         !.loc.nextPageUrl = held[2]],
                           [data |-> b], b.items)
       IN /\ AtMostOne(w.loc.nextCursor, w.loc.nextPageUrl)
          /\ cfg.mode # "cursor" => w.loc.nextCursor = held[1] /\ w.loc.nextPageUrl = held[2]

\* After a page whose answer carried a token, Next has fetched an answer
\* that carries a next URL: the token is gone.
C27_Witness ==
  /\ lastOp = "fetch"
  /\ exec.pc = "idle"
  /\ exec.pageOrDirection.t = "next"
  /\ exec.request.kind = "token"
  /\ pagination.nextPageUrl = Some(2)
  /\ pagination.nextCursor = None
  /\ Len(pagination.prevCursors) > 0


(***************************************************************************)
(* The receiver's append path: a POST with the envelope {sheetName, data}  *)
(* of a transported page.  An item is written [n, keys]: its number and    *)
(* the names of its fields in the order Object.keys gives them; the value  *)
(* of field k of item n is the cell [k, n], so a cell tells which field    *)
(* it came from.  The timestamp is the cell ["_timestamp", 0], the empty   *)
(* string the cell ["", 0].                                                *)
(***************************************************************************)
Cell(k, n) == [k |-> k, n |-> n]

\* writeArrayData lines 231-240: allKeys with the keys of the items that are
\* not in it yet appended in the order they are met.
RECURSIVE KeysOf(_, _)
KeysOf(dataArray, allKeys) ==
  IF dataArray = <<>> THEN allKeys
  ELSE LET item == Head(dataArray)
           fresh == SelectSeq(item.keys,
                              LAMBDA key : \A e \in DOMAIN allKeys : allKeys[e] # key)
       IN KeysOf(Tail(dataArray), allKeys \o fresh)

\* sheet.getLastRow()
getLastRow(sh) == IF sh.headers = <<>> THEN 0 ELSE 1 + Len(sh.rows)

\* writeArrayData (receiver, lines 227-274): the sheet after the write.  The
\* header row is written only to a sheet that has no row yet.
writeArrayData(sh, dataArray) ==
  IF Len(dataArray) = 0 THEN sh
  ELSE LET allKeys == KeysOf(dataArray, <<>>)
           headers == <<"_timestamp">> \o allKeys
           lastRow == getLastRow(sh)
           rows == [m \in DOMAIN dataArray |->
                      <<Cell("_timestamp", 0)>> \o
                      [e \in DOMAIN allKeys |->
                         IF \E f \in DOMAIN dataArray[m].keys :
                              dataArray[m].keys[f] = allKeys[e]
                           THEN Cell(allKeys[e], dataArray[m].n)
                           ELSE Cell("", 0)]]
       IN [headers |-> IF lastRow = 0 THEN headers ELSE sh.headers,
           rows |-> sh.rows \o rows]

\* The items of the pages: the same fields in two orders, a field the first
\* items do not have, a single field, three fields.
ItemShapes ==
  {<<"id", "name">>, <<"name", "id">>, <<"id", "email">>, <<"id">>, <<"email", "name", "id">>}

\* The page that follows a sheet of r rows: its items are numbered on.
Pages(r) ==
  {[m \in DOMAIN shapes |-> [n |-> r + m, keys |-> shapes[m]]] :
     shapes \in SeqsUpTo(ItemShapes, MaxIncoming)}

\* doPost (lines 28-40) and receiveData (lines 173-221) for an envelope
\* without a merge mode: one POST per transported page.
doPostAppend ==
  /\ Len(sheet.rows) < MaxRows
  /\ \E data \in Pages(Len(sheet.rows)) :
       /\ sheet' = writeArrayData(sheet, data)
       /\ lastReply' = MergeReply("Written", Len(data), 0, Len(KeysOf(data, <<>>)))
       /\ lastPost' = [before |-> sheet, data |-> data]
  /\ UNCHANGED <<pvars, ovars, tvars, evars>>

NextAppend == doPostAppend

\* The tab does not exist yet: receiveData creates it empty.
InitAppend ==
  /\ TransportInit({ExampleConfig}, MaxFaults)
  /\ EnrichInit({DefaultForm}, {[faults |-> 0, pauses |-> 0, runs |-> 1]})
  /\ ReceiverInit({SheetOf(<<>>, <<>>)})

SpecAppend == InitAppend /\ [][NextAppend]_vars

(***************************************************************************)
(* C26: after any number of append writes to a tab, every value in the     *)
(* sheet stands in the column whose header is the name of its field, the   *)
(* first column is the timestamp, and the headers after it are the keys of *)
(* the items written, in the order of their first appearance.              *)
(***************************************************************************)
C26_ValuesUnderTheirHeaders ==
  /\ \A i \in DOMAIN sheet.rows : \A e \in DOMAIN sheet.rows[i] :
       sheet.rows[i][e].k # "" =>
         e \in DOMAIN sheet.headers /\ sheet.headers[e] = sheet.rows[i][e].k
  /\ (lastPost # NoPost /\ lastPost.data # <<>>) =>
       sheet.headers = <<"_timestamp">> \o
         KeysOf(lastPost.data, IF lastPost.before.headers = <<>> THEN <<>>
                               ELSE Tail(lastPost.before.headers))


(***************************************************************************)
(* The panel's fetch over answers with and without rate-limit headers      *)
(* (x-ratelimit-limit, x-ratelimit-remaining, x-ratelimit-reset, ...),     *)
(* with the default budget of three retries.  exec.rateLimit.retryCount is *)
(* the store's rateLimit.retryCount, exec.retryCount the local of          *)
(* executeFetch.                                                           *)
(***************************************************************************)
RateResults == {[r EXCEPT !.rateLimitInfo = h] : r \in PanelResults, h \in BOOLEAN}

NextRate ==
  \/ \E paramKeys \in {<<"page", "per_page">>, <<"limit">>} : handleParse(paramKeys)
  \/ handleExecute
  \/ \E result \in RateResults : ExecReturn(result)
  \/ ExecWaitDone

RateConfigs ==
  {c \in VariedConfigs : /\ c.retryOn429 /\ c.maxRetries = DefaultMaxRetries
                         /\ c.btMode = "all" /\ c.delayMs = DefaultDelayMs}

InitRate ==
  /\ TransportInit(RateConfigs, MaxFaults)
  /\ EnrichInit({DefaultForm}, {[faults |-> 0, pauses |-> 0, runs |-> 1]})
  /\ ReceiverInit({SheetOf(<<>>, <<>>)})

SpecRate == InitRate /\ [][NextRate]_vars

(***************************************************************************)
(* C31: when a fetch has ended with a result whose status is not 429, the  *)
(* store's retryCount is zero, also when the fetch succeeded after 429     *)
(* retries and its response carries no rate-limit headers.                 *)
(***************************************************************************)
C31_RetryCountReset ==
  (lastOp = "fetch" /\ exec.pc = "idle" /\ Val(apiResponse).status # 429) =>
    exec.rateLimit.retryCount = 0


(***************************************************************************)
(* C32: once the close timer has reset the job state and unmounted the     *)
(* modal, the job state keeps its initial values as long as the modal is   *)
(* closed (no job can be started then): the loop that was cancelled by the *)
(* close writes nothing more to log, errors, isRunning or completedAt.     *)
(***************************************************************************)
C32_ResetStateStays ==
  modal = "closed" => bulkTransport = InitialBulkTransport

(***************************************************************************)
(* C33: the bulk job's flags follow idle -> running -> {paused <-> running} *)
(* -> terminal.  isPaused holds only while isRunning holds (a job cancelled *)
(* while paused is not left flagged paused once it has ended), isCancelled  *)
(* is found only on a job that was started, and a job that is not running   *)
(* becomes running only by a start that resets every progress field.        *)
(***************************************************************************)
PausedOnlyRunning ==
  /\ bulkTransport.isPaused => bulkTransport.isRunning
  /\ bulkTransport.isCancelled => bulkTransport.startedAt = "set"

FreshStart ==
  (~bulkTransport.isRunning /\ bulkTransport'.isRunning) =>
    \* the first run of the loop (line 766) has already counted page 1
    \E n \in {0, 1} :
      bulkTransport' = [InitialBulkTransport EXCEPT !.isRunning = TRUE,
                                                    !.startedAt = "set",
                                                    !.currentPage = n]

C33_JobLifecycle ==
  [](PausedOnlyRunning) /\ [][FreshStart]_vars


(***************************************************************************)
(* C34: in every state of a bulk run totalItemsSent is the sum of the item  *)
(* counts of the log entries with status 'sent', totalPagesSent is the      *)
(* number of these entries and is at most currentPage, every entry of       *)
(* errors names a page in 1..currentPage, and neither counter decreases     *)
(* while the job is running.                                                *)
(***************************************************************************)
RECURSIVE SentItems(_)
SentItems(log) ==
  IF log = <<>> THEN 0
  ELSE (IF log[1].status = "sent" THEN log[1].items ELSE 0) + SentItems(Tail(log))

SentPages(log) == Cardinality({k \in DOMAIN log : log[k].status = "sent"})

CountersMatchLog ==
  /\ bulkTransport.totalItemsSent = SentItems(bulkTransport.log)
  /\ bulkTransport.totalPagesSent = SentPages(bulkTransport.log)
  /\ bulkTransport.totalPagesSent <= bulkTransport.currentPage
  /\ \A k \in DOMAIN bulkTransport.errors :
       bulkTransport.errors[k].page \in 1..bulkTransport.currentPage

CountersGrow ==
  (bulkTransport.isRunning /\ bulkTransport'.isRunning) =>
    /\ bulkTransport'.totalItemsSent >= bulkTransport.totalItemsSent
    /\ bulkTransport'.totalPagesSent >= bulkTransport.totalPagesSent

EnrichStopped == ~enrichment.isRunning /\ enrichment.startedAt = "set"

C35_StoppedJobConsistent ==
  /\ EnrichStopped =>
       /\ enrichment.lastProcessedIndex = enrichment.processedIds
       /\ enrichment.processedIds \in 0..enrichment.totalIds
       /\ (enrichment.completedAt # "null") <=> ~enrichment.isCancelled
       /\ ~enrichment.isCancelled => enrichment.processedIds = enrichment.totalIds
  /\ enrichCanResume =>
       /\ EnrichStopped
       /\ ~enrichComplete
       /\ enrichment.lastProcessedIndex > 0
       /\ enrichment.idList # <<>>

NextPageSignal(p) == <<p.nextCursor, p.nextPageUrl>>

C37_RefineIdempotent ==
  (lastOp = "fetch" /\ exec.pc = "idle") =>
    LET result == Val(apiResponse)
        once == DetectNext(World, result, result.data.items)
        twice == DetectNext(once, result, result.data.items)
    IN /\ \A d \in {Undefined, Direction("next"), Direction("prev")} :
            NextPageSignal(refinePagination(pagination, pagination, result, d))
              = NextPageSignal(pagination)
       /\ NextPageSignal(twice.loc) = NextPageSignal(once.loc)
       /\ twice.loc.reachedEnd = once.loc.reachedEnd

C37_Witness ==
  /\ lastOp = "fetch"
  /\ exec.pc = "idle"
  /\ detectCursorFromResponse(Val(apiResponse).data).found
  /\ IsSome(pagination.nextCursor)
  /\ DetectNext(World, Val(apiResponse), <<>>).loc.nextCursor = pagination.nextCursor

=============================================================================
